---- MODULE Spec2Model ----
(***************************************************************************)
(* seeds (sd): a git-native issue tracker that keeps its issues in          *)
(* .seeds/issues.jsonl and serializes writers with a sentinel lock file.    *)
(*                                                                          *)
(* The module models                                                        *)
(*   - the advisory lock protocol of src/store.ts (acquireLock/releaseLock),*)
(*   - the JSONL store (readJsonl, readIssues, appendIssue, writeIssues,    *)
(*     atomicWrite),                                                        *)
(*   - the commands that mutate the store (create, close, tpl pour), each   *)
(*     run by an independent OS process,                                    *)
(*   - the read-only commands (ready), run on any log.                      *)
(*                                                                          *)
(* Issue ids "{project}-{4hex}" are modelled by positive integers, template *)
(* ids by positive integers, wall-clock time (Date.now()) by milliseconds.  *)
(***************************************************************************)
EXTENDS Integers, Sequences, FiniteSets, TLC

\* ------------------------------------------------------------------ bounds

\* number of OS processes that run sd commands concurrently
NumProcs == 2
\* number of commands started in one behaviour
MaxOps == 3
\* number of times the wall clock is observed to advance
MaxTicks == 1
\* number of process crashes in one behaviour
MaxCrashes == 1
\* size of the id space generateId draws from
MaxId == 3
\* size of the id space generateId draws a template id from
MaxTplId == 4
\* number of lines of the logs the read-only commands are run on
MaxLines == 3
\* number of commands run one after the other on a store
MaxSeqOps == 2

\* ------------------------------------------------------- program constants

LOCK_STALE_MS == 30000
LOCK_RETRY_MS == 50
LOCK_TIMEOUT_MS == 5000

\* ------------------------------------------------------------------- data

Procs == 1..NumProcs
IdSpace == 1..MaxId
TplIdSpace == 1..MaxTplId

\* An optional list field (blocks?, blockedBy?) that is absent from the
\* record; ids are positive, so <<0>> is no list of ids.
Absent == <<0>>
\* closedAt? / convoy? absent
NoTime == -1
NoConvoy == 0

\* `list ?? []`
OrEmpty(l) == IF l = Absent THEN <<>> ELSE l

\* The set of elements of a sequence.
Range(s) == {s[i] : i \in 1..Len(s)}

\* A line of a .jsonl file that JSON.parse rejects, and a blank line.
BadLine == [kind |-> "bad"]
BlankLine == [kind |-> "blank"]

\* The object literal `create` and `tpl pour` build for a new issue.
NewIssue(id, t, cv) ==
    [kind |-> "issue", id |-> id, status |-> "open",
     blockedBy |-> Absent, blocks |-> Absent, convoy |-> cv,
     updatedAt |-> t, closedAt |-> NoTime]

\* ------------------------------------------------------------------ store

\* readJsonl: split into lines, skip blank ones, JSON.parse each of the
\* others.  JSON.parse throws on a malformed line and nothing catches it, so
\* the whole read fails.
readJsonl(lines) ==
    LET nonBlank == SelectSeq(lines, LAMBDA l : l.kind # "blank")
    IN  IF \E i \in 1..Len(nonBlank) : nonBlank[i].kind = "bad"
        THEN [ok |-> FALSE, recs |-> <<>>]
        ELSE [ok |-> TRUE, recs |-> nonBlank]

\* A dedup that keeps the first record of an id and drops the later ones.
MapSet_FirstWins(m, rec) ==
    IF \E i \in 1..Len(m) : m[i].id = rec.id THEN m ELSE Append(m, rec)

\* Map.set(rec.id, rec): an id that is already a key keeps its position and
\* takes the new value; a new id is added at the end.
MapSet(m, rec) ==
    IF \E i \in 1..Len(m) : m[i].id = rec.id
    THEN [i \in 1..Len(m) |-> IF m[i].id = rec.id THEN rec ELSE m[i]]
    ELSE Append(m, rec)

RECURSIVE MapOf(_, _)
MapOf(m, raw) ==
    IF raw = <<>> THEN m ELSE MapOf(MapSet(m, Head(raw)), Tail(raw))

\* readIssues: readJsonl, then dedup through a Map keyed by id;
\* Array.from(map.values()).
readIssues(lines) ==
    LET r == readJsonl(lines)
    IN  IF r.ok THEN [ok |-> TRUE, recs |-> MapOf(<<>>, r.recs)] ELSE r

\* issues.findIndex(i => i.id === id); 0 stands for -1.
FindIndex(issues, id) ==
    IF \E i \in 1..Len(issues) : issues[i].id = id
    THEN CHOOSE i \in 1..Len(issues) :
            issues[i].id = id /\ \A j \in 1..(i - 1) : issues[j].id # id
    ELSE 0

IdsOf(issues) == {issues[i].id : i \in 1..Len(issues)}

\* A ready that takes an unknown blocker for a resolved one: only blockers
\* that exist and are not closed keep an issue out.
ready_UnknownIsResolved(issues) ==
    LET openIds == {issues[i].id : i \in {j \in 1..Len(issues) :
                                            issues[j].status # "closed"}}
    IN  SelectSeq(issues, LAMBDA i :
            /\ i.status = "open"
            /\ \A bid \in Range(OrEmpty(i.blockedBy)) : bid \notin openIds)

\* A ready that is content with one closed blocker.
ready_AnyClosed(issues) ==
    LET closedIds == {issues[i].id : i \in {j \in 1..Len(issues) :
                                              issues[j].status = "closed"}}
    IN  SelectSeq(issues, LAMBDA i :
            /\ i.status = "open"
            /\ \/ OrEmpty(i.blockedBy) = <<>>
               \/ \E bid \in Range(OrEmpty(i.blockedBy)) : bid \in closedIds)

\* A ready that lists every issue that is not closed and has no unclosed
\* blocker, in progress or not.
ready_NotClosed(issues) ==
    LET closedIds == {issues[i].id : i \in {j \in 1..Len(issues) :
                                              issues[j].status = "closed"}}
    IN  SelectSeq(issues, LAMBDA i :
            /\ i.status # "closed"
            /\ \A bid \in Range(OrEmpty(i.blockedBy)) : bid \in closedIds)

\* sd ready: closedIds = ids of the closed issues; keep the issues that are
\* open and whose blockers (blockedBy ?? []) are all in closedIds.
ready(issues) ==
    LET closedIds == {issues[i].id : i \in {j \in 1..Len(issues) :
                                              issues[j].status = "closed"}}
    IN  SelectSeq(issues, LAMBDA i :
            /\ i.status = "open"
            /\ \A bid \in Range(OrEmpty(i.blockedBy)) : bid \in closedIds)

\* A blocked listing that goes by the [blocked] tag of printIssueOneLine:
\* any issue with a non-empty blockedBy.
blocked_AnyBlocker(issues) ==
    SelectSeq(issues, LAMBDA i : Len(OrEmpty(i.blockedBy)) > 0)

\* sd blocked: closedIds as in ready; keep the issues that are not closed
\* and have a blocker (blockedBy ?? []) that is not in closedIds.
blocked(issues) ==
    LET closedIds == {issues[i].id : i \in {j \in 1..Len(issues) :
                                              issues[j].status = "closed"}}
    IN  SelectSeq(issues, LAMBDA i :
            /\ i.status # "closed"
            /\ \E bid \in Range(OrEmpty(i.blockedBy)) : bid \notin closedIds)

\* sd stats: the `blocked` count, the length of the same filter written out
\* again in stats.ts.
statsBlocked(issues) ==
    LET closedIds == {issues[i].id : i \in {j \in 1..Len(issues) :
                                              issues[j].status = "closed"}}
    IN  Len(SelectSeq(issues, LAMBDA i :
            IF i.status = "closed" THEN FALSE
            ELSE \E bid \in Range(OrEmpty(i.blockedBy)) : bid \notin closedIds))

\* sd tpl status: convoyIssues = the issues whose convoy is the template;
\* closedIds is taken over all issues; `blocked` counts the convoy issues
\* that pass the filter.
tplStatusBlocked(issues, templateId) ==
    LET convoyIssues == SelectSeq(issues, LAMBDA i : i.convoy = templateId)
        closedIds == {issues[i].id : i \in {j \in 1..Len(issues) :
                                              issues[j].status = "closed"}}
    IN  IF Len(convoyIssues) = 0 THEN 0
        ELSE Len(SelectSeq(convoyIssues, LAMBDA i :
                IF i.status = "closed" THEN FALSE
                ELSE \E bid \in Range(OrEmpty(i.blockedBy)) :
                         bid \notin closedIds))

\* -------------------------------------------------------------- templates

\* readTemplates: the same read and dedup over templates.jsonl.
readTemplates(lines) == readIssues(lines)

\* templates.find(t => t.id === templateId); the result is a sequence of
\* zero or one template.
FindTemplate(tpls, id) == SelectSeq(tpls, LAMBDA t : t.id = id)

\* The title of step i of a template, as the pieces of its text: the
\* placeholder "{prefix}" is one piece.
StepTitle(i) ==
    IF i % 2 = 1 THEN <<"{prefix}", ": step">>
    ELSE <<"step of ", "{prefix}", "{prefix}">>

\* A template line of templates.jsonl; a step keeps its title, type and
\* priority.
Template(id, k) ==
    [kind |-> "template", id |-> id,
     steps |-> [i \in 1..k |->
                  [title |-> StepTitle(i), type |-> "task", priority |-> 2]]]

RECURSIVE Flatten(_)
Flatten(seqs) ==
    IF seqs = <<>> THEN <<>> ELSE Head(seqs) \o Flatten(Tail(seqs))

\* What String.prototype.replace makes of a replacement string for one
\* match: "$$" stands for a dollar sign and "$&" for the matched text; any
\* other piece is copied.
GetSubstitution(matched, replacement) ==
    Flatten([i \in 1..Len(replacement) |->
                IF replacement[i] = "$$" THEN <<"$">>
                ELSE IF replacement[i] = "$&" THEN <<matched>>
                ELSE <<replacement[i]>>])

\* step.title.replace(/\{prefix\}/g, prefix): every match is replaced by
\* the substitution of the replacement string; the result is not scanned
\* again.
replacePrefix(title, prefix) ==
    Flatten([i \in 1..Len(title) |->
                IF title[i] = "{prefix}"
                THEN GetSubstitution(title[i], prefix)
                ELSE <<title[i]>>])

\* ----------------------------------------------------- command bodies

\* A close that toggles: an issue that is closed already is opened again.
RECURSIVE CloseBlock_Toggle(_, _, _)
CloseBlock_Toggle(issues, ids, t) ==
    IF ids = <<>> THEN [ok |-> TRUE, issues |-> issues]
    ELSE LET idx == FindIndex(issues, Head(ids))
         IN  IF idx = 0 THEN [ok |-> FALSE, issues |-> issues]
             ELSE CloseBlock_Toggle(
                    [issues EXCEPT ![idx] =
                        [@ EXCEPT !.status = IF @ = "closed" THEN "open"
                                             ELSE "closed",
                                  !.closedAt = t, !.updatedAt = t]],
                    Tail(ids), t)

\* A close that passes over an id it does not find and closes the others.
RECURSIVE CloseBlock_SkipMissing(_, _, _)
CloseBlock_SkipMissing(issues, ids, t) ==
    IF ids = <<>> THEN [ok |-> TRUE, issues |-> issues]
    ELSE LET idx == FindIndex(issues, Head(ids))
         IN  IF idx = 0 THEN CloseBlock_SkipMissing(issues, Tail(ids), t)
             ELSE CloseBlock_SkipMissing(
                    [issues EXCEPT ![idx] =
                        [@ EXCEPT !.status = "closed", !.closedAt = t,
                                  !.updatedAt = t]],
                    Tail(ids), t)

\* close: for each id in turn, findIndex, throw if missing, else replace the
\* record by {...issue, status: "closed", closedAt: now, updatedAt: now}.
RECURSIVE CloseBlock(_, _, _)
CloseBlock(issues, ids, t) ==
    IF ids = <<>> THEN [ok |-> TRUE, issues |-> issues]
    ELSE LET idx == FindIndex(issues, Head(ids))
         IN  IF idx = 0 THEN [ok |-> FALSE, issues |-> issues]
             ELSE CloseBlock(
                    [issues EXCEPT ![idx] =
                        [@ EXCEPT !.status = "closed", !.closedAt = t,
                                  !.updatedAt = t]],
                    Tail(ids), t)

\* Array.from(new Set(list)): the first occurrence of each id, in order.
RECURSIVE Uniq(_)
Uniq(list) ==
    IF list = <<>> THEN <<>>
    ELSE LET front == Uniq(SubSeq(list, 1, Len(list) - 1))
             last == list[Len(list)]
         IN  IF last \in Range(front) THEN front ELSE Append(front, last)

\* list.filter((id) => id !== x)
Without(list, x) == SelectSeq(list, LAMBDA id : id # x)

\* A dep add that pushes the id onto the list without the Set.
DepBlock_Push(issues, sub, issueId, dependsOnId, t) ==
    LET issueIdx == FindIndex(issues, issueId)
        depIdx == FindIndex(issues, dependsOnId)
    IN  IF issueIdx = 0 \/ depIdx = 0 THEN [ok |-> FALSE, issues |-> issues]
        ELSE LET issue == issues[issueIdx]
                 dep == issues[depIdx]
                 blockedBy ==
                     IF sub = "add"
                     THEN Append(OrEmpty(issue.blockedBy), dependsOnId)
                     ELSE Without(OrEmpty(issue.blockedBy), dependsOnId)
                 depBlocks ==
                     IF sub = "add"
                     THEN Append(OrEmpty(dep.blocks), issueId)
                     ELSE Without(OrEmpty(dep.blocks), issueId)
                 first == [issues EXCEPT ![issueIdx] =
                             [issue EXCEPT
                                !.blockedBy = IF Len(blockedBy) > 0
                                              THEN blockedBy ELSE Absent,
                                !.updatedAt = t]]
             IN  [ok |-> TRUE,
                  issues |-> [first EXCEPT ![depIdx] =
                                [dep EXCEPT
                                   !.blocks = IF Len(depBlocks) > 0
                                              THEN depBlocks ELSE Absent,
                                   !.updatedAt = t]]]

\* dep add / dep remove: findIndex of both ids, throw if one is missing;
\* `issue` and `dep` are the records read before either is replaced, then
\* issues[issueIdx] and issues[depIdx] are assigned in that order.  On
\* remove a list that becomes empty is set to undefined.
DepBlock(issues, sub, issueId, dependsOnId, t) ==
    LET issueIdx == FindIndex(issues, issueId)
        depIdx == FindIndex(issues, dependsOnId)
    IN  IF issueIdx = 0 \/ depIdx = 0 THEN [ok |-> FALSE, issues |-> issues]
        ELSE LET issue == issues[issueIdx]
                 dep == issues[depIdx]
                 blockedBy ==
                     IF sub = "add"
                     THEN Uniq(Append(OrEmpty(issue.blockedBy), dependsOnId))
                     ELSE Without(OrEmpty(issue.blockedBy), dependsOnId)
                 depBlocks ==
                     IF sub = "add"
                     THEN Uniq(Append(OrEmpty(dep.blocks), issueId))
                     ELSE Without(OrEmpty(dep.blocks), issueId)
                 updatedIssue ==
                     [issue EXCEPT
                        !.blockedBy = IF Len(blockedBy) > 0 THEN blockedBy
                                      ELSE Absent,
                        !.updatedAt = t]
                 updatedDep ==
                     [dep EXCEPT
                        !.blocks = IF Len(depBlocks) > 0 THEN depBlocks
                                   ELSE Absent,
                        !.updatedAt = t]
                 first == [issues EXCEPT ![issueIdx] = updatedIssue]
             IN  [ok |-> TRUE,
                  issues |-> [first EXCEPT ![depIdx] = updatedDep]]

\* update: findIndex, throw if missing, else issues[idx] = {...issue,
\* ...patch} with patch = {updatedAt: now} and the status if --status is
\* given ("" when it is not).
UpdateBlock(issues, id, st, t) ==
    LET idx == FindIndex(issues, id)
    IN  IF idx = 0 THEN [ok |-> FALSE, issues |-> issues]
        ELSE [ok |-> TRUE,
              issues |-> [issues EXCEPT ![idx] =
                            [@ EXCEPT !.updatedAt = t,
                                      !.status = IF st = "" THEN @ ELSE st]]]

\* A pour that makes every later step depend on the first step only.
PourIssues_Star(newIds, tpl, prefix, t) ==
    LET k == Len(newIds)
    IN  [i \in 1..k |->
            [title |-> replacePrefix(tpl.steps[i].title, prefix)] @@
            [NewIssue(newIds[i], t, tpl.id) EXCEPT
                !.blockedBy = IF i > 1 THEN <<newIds[1]>> ELSE Absent,
                !.blocks = IF i = 1 /\ k > 1 THEN SubSeq(newIds, 2, k)
                           ELSE Absent]]

\* tpl pour: one new issue per step, then step i+1 blockedBy step i and
\* step i blocks step i+1.
PourIssues(newIds, tpl, prefix, t) ==
    LET k == Len(newIds)
    IN  [i \in 1..k |->
            [title |-> replacePrefix(tpl.steps[i].title, prefix)] @@
            [NewIssue(newIds[i], t, tpl.id) EXCEPT
                !.blockedBy = IF i > 1 THEN <<newIds[i - 1]>> ELSE Absent,
                !.blocks = IF i < k THEN <<newIds[i + 1]>> ELSE Absent]]

\* The id sequences the k calls of generateId can return: each id is not in
\* `existing` and not among the ids generated before it.
RECURSIVE FreshSeqs(_, _)
FreshSeqs(existing, k) ==
    IF k = 0 THEN {<<>>}
    ELSE UNION {{<<id>> \o rest : rest \in FreshSeqs(existing \cup {id}, k - 1)} :
                    id \in IdSpace \ existing}

\* ------------------------------------------------------------------ state

VARIABLES
    issuesFile,     \* the lines of .seeds/issues.jsonl
    templatesFile,  \* the lines of .seeds/templates.jsonl
    lock,           \* the sentinel issues.jsonl.lock: its mtime and, as a
                    \* history value, the process that created it
    tplLock,        \* the sentinel templates.jsonl.lock, likewise
    tmp,            \* the issues.jsonl.tmp.* files in .seeds/
    now,            \* Date.now()
    ticks,          \* how often the clock has advanced
    pc,             \* where each process is in its command
    cmd,            \* the command each process runs
    lvl,            \* whose acquireLock call is running or done last:
                    \* withLock's ("outer") or the store function's ("inner")
    deadline,       \* acquireLock's local `deadline`
    wakeAt,         \* when the pending sleep(LOCK_RETRY_MS) resolves
    buf,            \* the issue to append / the issues to write
    existing,       \* appendIssue's local `existing`
    err,            \* the error the command has thrown, "none" if none
    out,            \* the messages the finished commands have printed
    opsStarted,     \* commands started so far
    crashes,        \* processes killed so far
    budget,         \* ids the started create/pour commands will generate
    result,         \* what the last read-only command returned
    fs              \* the directories around the project: which have a
                    \* .seeds/config.yaml, and how git is laid out

vars == <<issuesFile, templatesFile, lock, tplLock, tmp, now, ticks, pc, cmd,
          lvl, deadline, wakeAt, buf, existing, err, out, opsStarted,
          crashes, budget, result, fs>>

\* sd init has run in the root of a checkout that has no other working
\* tree: the layout every command but the resolver is modelled in.
ProjectFs == [seeds |-> {<<"m">>}, git |-> "main"]

NoLock == [mtime |-> NoTime, by |-> 0]
NoCmd == [op |-> "none", ids |-> <<>>, tpl |-> 0, st |-> "", prefix |-> <<>>]
NoResult == [op |-> "none", ok |-> TRUE, recs |-> <<>>, n |-> 0, tpl |-> 0]

\* The templates the model starts with: template 1 has two steps, template 2
\* has none (tpl create followed by tpl step add).
StepsOfTpl1 == 2
InitTemplates == <<Template(1, StepsOfTpl1), Template(2, 0)>>

\* The commands a process can be started with.
Commands ==
    {[op |-> "create", ids |-> <<>>, tpl |-> 0, st |-> "", prefix |-> <<>>]}
    \cup {[op |-> "close", ids |-> <<i>>, tpl |-> 0, st |-> "", prefix |-> <<>>] : i \in IdSpace}
    \cup {[op |-> "pour", ids |-> <<>>, tpl |-> t, st |-> "",
           prefix |-> <<"P">>] : t \in 1..3}

TickSteps == {LOCK_RETRY_MS, LOCK_TIMEOUT_MS, LOCK_STALE_MS + 1}

\* sd init leaves empty issues.jsonl and templates.jsonl; the templates are
\* there before the behaviours of the model begin.
Init ==
    /\ issuesFile = <<>>
    /\ templatesFile = InitTemplates
    /\ lock = NoLock
    /\ tplLock = NoLock
    /\ tmp = {}
    /\ now = 0
    /\ ticks = 0
    /\ pc = [p \in Procs |-> "idle"]
    /\ cmd = [p \in Procs |-> NoCmd]
    /\ lvl = [p \in Procs |-> "none"]
    /\ deadline = [p \in Procs |-> 0]
    /\ wakeAt = [p \in Procs |-> 0]
    /\ buf = [p \in Procs |-> <<>>]
    /\ existing = [p \in Procs |-> <<>>]
    /\ err = [p \in Procs |-> "none"]
    /\ out = {}
    /\ opsStarted = 0
    /\ crashes = 0
    /\ budget = 0
    /\ result = NoResult
    /\ fs = ProjectFs

\* ------------------------------------------------------------ lock steps

\* Date.now() - stat.mtimeMs > LOCK_STALE_MS
\* The commands that work on templates.jsonl.
TplOps == {"tplcreate", "tplstep"}

\* A lockPath that names one sentinel whatever the file.
lockPath_OneFile(p) == "issues.jsonl.lock"

\* lockPath(filePath) for the file the command of process p locks and
\* writes: templates.jsonl for tpl create and tpl step add, issues.jsonl for
\* every other command.
lockPath(p) ==
    IF cmd[p].op \in TplOps THEN "templates.jsonl.lock"
    ELSE "issues.jsonl.lock"

\* The sentinel the acquireLock and releaseLock of process p work on.
Sentinel(p) == IF lockPath(p) = "templates.jsonl.lock" THEN tplLock ELSE lock

\* That sentinel becomes v, the other one stays.
SetSentinel(p, v) ==
    IF lockPath(p) = "templates.jsonl.lock"
    THEN tplLock' = v /\ UNCHANGED lock
    ELSE lock' = v /\ UNCHANGED tplLock

\* The data file the store function of the command of process p works on.
DataFile(p) == IF cmd[p].op \in TplOps THEN templatesFile ELSE issuesFile

SetDataFile(p, v) ==
    IF cmd[p].op \in TplOps
    THEN templatesFile' = v /\ UNCHANGED issuesFile
    ELSE issuesFile' = v /\ UNCHANGED templatesFile

IsStale(mtime, t) == t - mtime > LOCK_STALE_MS

\* Where a process continues once acquireLock has returned.
AfterAcquire(p) ==
    IF lvl[p] = "outer" THEN "blk_read"
    ELSE IF cmd[p].op \in {"create", "tplcreate"} THEN "ap_read"
    ELSE "wr_tmp"

\* The line a command prints when it ends: its success message, or the
\* error it has thrown.
Message(p, e) ==
    [op |-> cmd[p].op, res |-> e,
     ids |-> IF e # "ok" THEN {}
             ELSE IF cmd[p].op = "create" THEN {buf[p][1].id}
             ELSE IF cmd[p].op = "pour"
             THEN {buf[p][i].id : i \in 1..Len(buf[p])} \ IdsOf(existing[p])
             ELSE Range(cmd[p].ids)]

\* The process exits with result e; the next command runs in a new process.
Exit(p, e) ==
    /\ out' = out \cup {Message(p, e)}
    /\ pc' = [pc EXCEPT ![p] = "idle"]
    /\ cmd' = [cmd EXCEPT ![p] = NoCmd]
    /\ lvl' = [lvl EXCEPT ![p] = "none"]
    /\ deadline' = [deadline EXCEPT ![p] = 0]
    /\ wakeAt' = [wakeAt EXCEPT ![p] = 0]
    /\ buf' = [buf EXCEPT ![p] = <<>>]
    /\ existing' = [existing EXCEPT ![p] = <<>>]
    /\ err' = [err EXCEPT ![p] = "none"]

\* openSync(lock, O_CREAT | O_EXCL | O_WRONLY) at the top of the loop, on
\* entry or when sleep(LOCK_RETRY_MS) has resolved: creates the sentinel and
\* returns, or fails with EEXIST.
TryOpen(p) ==
    /\ \/ pc[p] = "open"
       \/ pc[p] = "sleep" /\ now >= wakeAt[p]
    /\ IF Sentinel(p) = NoLock
       THEN /\ SetSentinel(p, [mtime |-> now, by |-> p])
            /\ pc' = [pc EXCEPT ![p] = AfterAcquire(p)]
       ELSE /\ pc' = [pc EXCEPT ![p] = "stat"]
            /\ UNCHANGED <<lock, tplLock>>
    /\ wakeAt' = [wakeAt EXCEPT ![p] = 0]
    /\ UNCHANGED <<issuesFile, templatesFile, tmp, now, ticks, cmd, lvl,
                   deadline, buf, existing, err, out, opsStarted, crashes, fs,
                   budget>>
    /\ UNCHANGED result

\* acquireLock throws its timeout.  Inside the function withLock runs, the
\* error unwinds to withLock's release; otherwise the command ends.
ThrowTimeout(p) ==
    IF lvl[p] = "inner"
    THEN /\ pc' = [pc EXCEPT ![p] = "wl_release"]
         /\ err' = [err EXCEPT ![p] = "timeout"]
         /\ UNCHANGED <<cmd, lvl, deadline, wakeAt, buf, existing, out>>
    ELSE Exit(p, "timeout")

\* An acquireLock that cleans up before it gives up: on timeout it unlinks
\* the sentinel it has been waiting for.
Stat_UnlinkOnTimeout(p) ==
    /\ pc[p] = "stat"
    /\ IF Sentinel(p) = NoLock
       THEN /\ pc' = [pc EXCEPT ![p] = "open"]
            /\ UNCHANGED <<cmd, lvl, deadline, wakeAt, buf, existing, err, out,
                           lock, tplLock>>
       ELSE IF IsStale(Sentinel(p).mtime, now)
       THEN /\ pc' = [pc EXCEPT ![p] = "unlink"]
            /\ UNCHANGED <<cmd, lvl, deadline, wakeAt, buf, existing, err, out,
                           lock, tplLock>>
       ELSE IF now >= deadline[p]
       THEN ThrowTimeout(p) /\ SetSentinel(p, NoLock)
       ELSE /\ pc' = [pc EXCEPT ![p] = "sleep"]
            /\ wakeAt' = [wakeAt EXCEPT ![p] = now + LOCK_RETRY_MS]
            /\ UNCHANGED <<cmd, lvl, deadline, buf, existing, err, out, lock,
                           tplLock>>
    /\ UNCHANGED <<issuesFile, templatesFile, tmp, now, ticks, opsStarted,
                   crashes, fs, budget, result>>

\* statSync(lock) after EEXIST.  ENOENT is caught and the loop continues; a
\* stale sentinel is unlinked next; otherwise the deadline is checked and
\* the process throws or sleeps LOCK_RETRY_MS.
Stat(p) ==
    /\ pc[p] = "stat"
    /\ IF Sentinel(p) = NoLock
       THEN /\ pc' = [pc EXCEPT ![p] = "open"]
            /\ UNCHANGED <<cmd, lvl, deadline, wakeAt, buf, existing, err, out>>
       ELSE IF IsStale(Sentinel(p).mtime, now)
       THEN /\ pc' = [pc EXCEPT ![p] = "unlink"]
            /\ UNCHANGED <<cmd, lvl, deadline, wakeAt, buf, existing, err, out>>
       ELSE IF now >= deadline[p]
       THEN ThrowTimeout(p)
       ELSE /\ pc' = [pc EXCEPT ![p] = "sleep"]
            /\ wakeAt' = [wakeAt EXCEPT ![p] = now + LOCK_RETRY_MS]
            /\ UNCHANGED <<cmd, lvl, deadline, buf, existing, err, out>>
    /\ UNCHANGED <<issuesFile, templatesFile, lock, tplLock, tmp, now, ticks,
                   opsStarted, crashes, fs, budget>>
    /\ UNCHANGED result

\* unlinkSync(lock) of the sentinel found stale, then `continue`; ENOENT is
\* caught and the loop continues as well.
Unlink(p) ==
    /\ pc[p] = "unlink"
    /\ SetSentinel(p, NoLock)
    /\ pc' = [pc EXCEPT ![p] = "open"]
    /\ UNCHANGED <<issuesFile, templatesFile, tmp, now, ticks, cmd, lvl,
                   deadline, wakeAt, buf, existing, err, out, opsStarted,
                   crashes, fs, budget>>
    /\ UNCHANGED result

\* releaseLock: unlinkSync(lockPath), errors ignored.
releaseLock(p) == SetSentinel(p, NoLock)

\* --------------------------------------------------------- command steps

\* ids the command will ask generateId for
IdsNeeded(c) ==
    IF c.op = "create" THEN 1
    ELSE IF c.op = "pour"
    THEN LET t == FindTemplate(readTemplates(templatesFile).recs, c.tpl)
         IN  IF t = <<>> THEN 0 ELSE Len(t[1].steps)
    ELSE 0

\* A process starts a command.  tpl pour first reads the templates, without
\* a lock, and throws if the template is unknown or has no steps.  Then the
\* command calls withLock(issuesPath(dir), ...), whose first act is
\* acquireLock: deadline = Date.now() + LOCK_TIMEOUT_MS.
Start(p, c) ==
    /\ pc[p] = "idle"
    /\ opsStarted < MaxOps
    /\ budget + IdsNeeded(c) <= MaxId
    /\ opsStarted' = opsStarted + 1
    /\ budget' = budget + IdsNeeded(c)
    /\ IF c.op = "pour" /\ IdsNeeded(c) = 0
       THEN /\ out' = out \cup
                {[op |-> "pour", ids |-> {},
                  res |-> IF ~readTemplates(templatesFile).ok THEN "parse"
                          ELSE IF FindTemplate(
                                      readTemplates(templatesFile).recs,
                                      c.tpl) = <<>>
                          THEN "notfound" ELSE "nosteps"]}
            /\ UNCHANGED <<pc, cmd, lvl, deadline, buf>>
       ELSE /\ pc' = [pc EXCEPT ![p] = "open"]
            /\ cmd' = [cmd EXCEPT ![p] = c]
            /\ lvl' = [lvl EXCEPT ![p] = "outer"]
            /\ deadline' = [deadline EXCEPT ![p] = now + LOCK_TIMEOUT_MS]
            /\ buf' = [buf EXCEPT ![p] =
                         IF c.op = "pour"
                         THEN FindTemplate(readTemplates(templatesFile).recs,
                                           c.tpl)
                         ELSE <<>>]
            /\ UNCHANGED out
    /\ UNCHANGED <<issuesFile, templatesFile, lock, tplLock, tmp, now, ticks,
                   wakeAt, existing, err, crashes, fs>>
    /\ UNCHANGED result

\* The call of the store function at the end of the block: appendIssue /
\* writeIssues begin with acquireLock(filePath).
CallStore(p, content) ==
    /\ buf' = [buf EXCEPT ![p] = content]
    /\ lvl' = [lvl EXCEPT ![p] = "inner"]
    /\ deadline' = [deadline EXCEPT ![p] = now + LOCK_TIMEOUT_MS]
    /\ pc' = [pc EXCEPT ![p] = "open"]
    /\ UNCHANGED err

\* The block throws: control passes to withLock's release.
Throw(p, e) ==
    /\ err' = [err EXCEPT ![p] = e]
    /\ pc' = [pc EXCEPT ![p] = "wl_release"]
    /\ UNCHANGED <<buf, lvl, deadline>>

\* tpl step add: findIndex, throw if the template is missing, else the
\* template with the step after its steps; the steps the model adds are the
\* steps of Template.
StepBlock(templates, id) ==
    LET idx == FindIndex(templates, id)
    IN  IF idx = 0 THEN [ok |-> FALSE, templates |-> templates]
        ELSE [ok |-> TRUE,
              templates |-> [templates EXCEPT ![idx] =
                                Template(id, Len(@.steps) + 1)]]

\* The function a command passes to withLock, up to its call of the store:
\* readIssues, then the command's own computation on what it read.
BlockRead(p) ==
    /\ pc[p] = "blk_read"
    /\ LET r == IF cmd[p].op \in TplOps THEN readTemplates(templatesFile)
                ELSE readIssues(issuesFile)
       IN  /\ existing' = [existing EXCEPT ![p] = r.recs]
           /\ IF ~r.ok THEN Throw(p, "parse")
              ELSE IF cmd[p].op = "tplcreate"
              THEN \E id \in TplIdSpace \ IdsOf(r.recs) :
                       CallStore(p, <<Template(id, 0)>>)
              ELSE IF cmd[p].op = "tplstep"
              THEN LET sb == StepBlock(r.recs, cmd[p].tpl)
                   IN  IF sb.ok THEN CallStore(p, sb.templates)
                       ELSE Throw(p, "notfound")
              ELSE IF cmd[p].op = "create"
              THEN \E id \in IdSpace \ IdsOf(r.recs) :
                       CallStore(p, <<NewIssue(id, now, NoConvoy)>>)
              ELSE IF cmd[p].op = "close"
              THEN LET cb == CloseBlock(r.recs, cmd[p].ids, now)
                   IN  IF cb.ok THEN CallStore(p, cb.issues)
                       ELSE Throw(p, "notfound")
              ELSE IF cmd[p].op = "depadd" \/ cmd[p].op = "deprm"
              THEN LET db == DepBlock(r.recs,
                                      IF cmd[p].op = "depadd" THEN "add"
                                      ELSE "remove",
                                      cmd[p].ids[1], cmd[p].ids[2], now)
                   IN  IF db.ok THEN CallStore(p, db.issues)
                       ELSE Throw(p, "notfound")
              ELSE IF cmd[p].op = "update"
              THEN LET ub == UpdateBlock(r.recs, cmd[p].ids[1], cmd[p].st, now)
                   IN  IF ub.ok THEN CallStore(p, ub.issues)
                       ELSE Throw(p, "notfound")
              ELSE \E newIds \in FreshSeqs(IdsOf(r.recs),
                                            Len(buf[p][1].steps)) :
                       CallStore(p, r.recs \o
                           PourIssues(newIds, buf[p][1], cmd[p].prefix, now))
    /\ UNCHANGED <<issuesFile, templatesFile, lock, tplLock, tmp, now, ticks,
                   cmd, wakeAt, out, opsStarted, crashes, fs, budget>>
    /\ UNCHANGED result

\* A writeIssues without try/finally: an error of the write leaves the
\* function at once and releaseLock is skipped.
WriteTmp_NoFinally(p) ==
    /\ pc[p] = "wr_tmp"
    /\ \/ /\ tmp' = tmp \cup {[by |-> p, content |-> buf[p]]}
          /\ pc' = [pc EXCEPT ![p] = "wr_rename"]
          /\ UNCHANGED err
       \/ /\ pc' = [pc EXCEPT ![p] = "wl_release"]
          /\ err' = [err EXCEPT ![p] = "io"]
          /\ UNCHANGED tmp
    /\ UNCHANGED <<issuesFile, templatesFile, lock, tplLock, now, ticks, cmd, lvl,
                   deadline, wakeAt, buf, existing, out, opsStarted, crashes, fs,
                   budget, result>>

\* A rewrite that writes the destination itself instead of a temporary
\* file, as appendIssue does.
WriteTmp_InPlace(p) ==
    /\ pc[p] = "wr_tmp"
    /\ SetDataFile(p, buf[p])
    /\ tmp' = tmp \cup {[by |-> p, content |-> buf[p]]}
    /\ pc' = [pc EXCEPT ![p] = "wr_rename"]
    /\ UNCHANGED <<lock, tplLock, now, ticks, cmd, lvl, deadline,
                   wakeAt, buf, existing, err, out, opsStarted, crashes, fs,
                   budget, result>>

\* atomicWrite, first half: Bun.write(tmpFile, content).  The write can
\* fail (disk full); the error leaves through writeIssues' finally.
WriteTmp(p) ==
    /\ pc[p] = "wr_tmp"
    /\ \/ /\ tmp' = tmp \cup {[by |-> p, content |-> buf[p]]}
          /\ pc' = [pc EXCEPT ![p] = "wr_rename"]
          /\ UNCHANGED err
       \/ /\ pc' = [pc EXCEPT ![p] = "st_release"]
          /\ err' = [err EXCEPT ![p] = "io"]
          /\ UNCHANGED tmp
    /\ UNCHANGED <<issuesFile, templatesFile, lock, tplLock, now, ticks, cmd, lvl,
                   deadline, wakeAt, buf, existing, out, opsStarted, crashes, fs,
                   budget>>
    /\ UNCHANGED result

\* atomicWrite, second half: renameSync(tmpFile, filePath).
Rename(p) ==
    /\ pc[p] = "wr_rename"
    /\ SetDataFile(p, buf[p])
    /\ tmp' = tmp \ {[by |-> p, content |-> buf[p]]}
    /\ pc' = [pc EXCEPT ![p] = "st_release"]
    /\ UNCHANGED <<lock, tplLock, now, ticks, cmd, lvl, deadline,
                   wakeAt, buf, existing, err, out, opsStarted, crashes, fs,
                   budget>>
    /\ UNCHANGED result

\* appendIssue: existing = (await file.exists()) ? await file.text() : ""
AppendRead(p) ==
    /\ pc[p] = "ap_read"
    /\ existing' = [existing EXCEPT ![p] = DataFile(p)]
    /\ pc' = [pc EXCEPT ![p] = "ap_write"]
    /\ UNCHANGED <<issuesFile, templatesFile, lock, tplLock, tmp, now, ticks, cmd,
                   lvl, deadline, wakeAt, buf, err, out, opsStarted, crashes, fs,
                   budget>>
    /\ UNCHANGED result

\* What issues.jsonl can hold while Bun.write(filePath, text) is rewriting
\* it in place: the file is truncated and filled from the start, so a
\* reader finds some complete lines of the new text, possibly followed by
\* the beginning of the next line.
TornContents(full) ==
    {SubSeq(full, 1, k) : k \in 0..(Len(full) - 1)}
    \cup {Append(SubSeq(full, 1, k), BadLine) : k \in 0..(Len(full) - 1)}

\* appendIssue: Bun.write(filePath, existing + line) has opened the file
\* and written part of the text.
AppendTruncate(p) ==
    /\ pc[p] = "ap_write"
    /\ \E torn \in TornContents(existing[p] \o buf[p]) :
           SetDataFile(p, torn)
    /\ pc' = [pc EXCEPT ![p] = "ap_finish"]
    /\ UNCHANGED <<lock, tplLock, tmp, now, ticks, cmd, lvl, deadline,
                   wakeAt, buf, existing, err, out, opsStarted, crashes, fs,
                   budget>>
    /\ UNCHANGED result

\* appendIssue: Bun.write(filePath, existing + line) completes.
AppendFinish(p) ==
    /\ pc[p] = "ap_finish"
    /\ SetDataFile(p, existing[p] \o buf[p])
    /\ pc' = [pc EXCEPT ![p] = "st_release"]
    /\ UNCHANGED <<lock, tplLock, tmp, now, ticks, cmd, lvl, deadline,
                   wakeAt, buf, existing, err, out, opsStarted, crashes, fs,
                   budget>>
    /\ UNCHANGED result

\* The finally of appendIssue / writeIssues: releaseLock(filePath); the
\* store function returns, or rethrows, into withLock's block, which ends.
StoreRelease(p) ==
    /\ pc[p] = "st_release"
    /\ releaseLock(p)
    /\ pc' = [pc EXCEPT ![p] = "wl_release"]
    /\ UNCHANGED <<issuesFile, templatesFile, tmp, now, ticks, cmd, lvl,
                   deadline, wakeAt, buf, existing, err, out, opsStarted,
                   crashes, fs, budget>>
    /\ UNCHANGED result

\* withLock: the block has returned or thrown; release the lock, then
\* return to the command, which prints its success message, or rethrow.
WithLockRelease(p) ==
    /\ pc[p] = "wl_release"
    /\ releaseLock(p)
    /\ Exit(p, IF err[p] = "none" THEN "ok" ELSE err[p])
    /\ UNCHANGED <<issuesFile, templatesFile, tmp, now, ticks, opsStarted,
                   crashes, fs, budget>>
    /\ UNCHANGED result

\* The process is killed in the middle of a command: its files stay as they
\* are, nothing of its finally blocks runs, nothing is printed.
Crash(p) ==
    /\ pc[p] # "idle"
    /\ crashes < MaxCrashes
    /\ crashes' = crashes + 1
    /\ pc' = [pc EXCEPT ![p] = "idle"]
    /\ cmd' = [cmd EXCEPT ![p] = NoCmd]
    /\ lvl' = [lvl EXCEPT ![p] = "none"]
    /\ deadline' = [deadline EXCEPT ![p] = 0]
    /\ wakeAt' = [wakeAt EXCEPT ![p] = 0]
    /\ buf' = [buf EXCEPT ![p] = <<>>]
    /\ existing' = [existing EXCEPT ![p] = <<>>]
    /\ err' = [err EXCEPT ![p] = "none"]
    /\ UNCHANGED <<issuesFile, templatesFile, lock, tplLock, tmp, now, ticks, out,
                   opsStarted, budget>>
    /\ UNCHANGED <<result, fs>>

\* Time passes.
Tick(d) ==
    /\ ticks < MaxTicks
    /\ ticks' = ticks + 1
    /\ now' = now + d
    /\ UNCHANGED <<issuesFile, templatesFile, lock, tplLock, tmp, pc, cmd, lvl,
                   deadline, wakeAt, buf, existing, err, out, opsStarted,
                   crashes, fs, budget>>
    /\ UNCHANGED result

Next ==
    \/ \E p \in Procs, c \in Commands : Start(p, c)
    \/ \E p \in Procs : TryOpen(p)
    \/ \E p \in Procs : Stat(p)
    \/ \E p \in Procs : Unlink(p)
    \/ \E p \in Procs : BlockRead(p)
    \/ \E p \in Procs : WriteTmp(p)
    \/ \E p \in Procs : Rename(p)
    \/ \E p \in Procs : AppendRead(p)
    \/ \E p \in Procs : AppendTruncate(p)
    \/ \E p \in Procs : AppendFinish(p)
    \/ \E p \in Procs : StoreRelease(p)
    \/ \E p \in Procs : WithLockRelease(p)
    \/ \E p \in Procs : Crash(p)
    \/ \E d \in TickSteps : Tick(d)

Spec == Init /\ [][Next]_vars

\* ------------------------------------------------- read-only commands

\* IssueStatus
Statuses == {"open", "in_progress", "closed"}

\* A line of issues.jsonl as a writer, a hand edit or a git union merge can
\* have left it.
LogIssue(id, st, bb) ==
    [kind |-> "issue", id |-> id, status |-> st, blockedBy |-> bb,
     blocks |-> Absent, convoy |-> NoConvoy, updatedAt |-> 0,
     closedAt |-> NoTime]

\* The lines the logs are made of: issues 1 and 2 in every status, issue 2
\* also with a blocker that is no issue, issue 3 in every status with no
\* blockedBy, an empty one, one or two blockers, or an unknown blocker; a
\* line that is not JSON; a blank line.  Issues 1 and 3 are of convoy 1.
LogLines ==
    {[LogIssue(1, st, Absent) EXCEPT !.convoy = 1] : st \in Statuses}
    \cup {LogIssue(2, st, Absent) : st \in Statuses}
    \cup {LogIssue(2, "open", <<4>>)}
    \cup {[LogIssue(3, st, bb) EXCEPT !.convoy = 1] :
            st \in Statuses, bb \in {Absent, <<>>, <<1>>, <<1, 2>>, <<4>>}}
    \cup {BadLine, BlankLine}

Logs == UNION {[1..n -> LogLines] : n \in 0..MaxLines}

\* Any log, no command running.
InitRead ==
    /\ issuesFile \in Logs
    /\ templatesFile = InitTemplates
    /\ lock = NoLock
    /\ tplLock = NoLock
    /\ tmp = {}
    /\ now = 0
    /\ ticks = 0
    /\ pc = [p \in Procs |-> "idle"]
    /\ cmd = [p \in Procs |-> NoCmd]
    /\ lvl = [p \in Procs |-> "none"]
    /\ deadline = [p \in Procs |-> 0]
    /\ wakeAt = [p \in Procs |-> 0]
    /\ buf = [p \in Procs |-> <<>>]
    /\ existing = [p \in Procs |-> <<>>]
    /\ err = [p \in Procs |-> "none"]
    /\ out = {}
    /\ opsStarted = 0
    /\ crashes = 0
    /\ budget = 0
    /\ result = NoResult
    /\ fs = ProjectFs

\* A command that reads the store (list, show, ...): readIssues(dir); the
\* read returns the collection or throws.  A read changes no file, so one
\* read-only command is run on each log.
ReadAllCmd ==
    /\ result = NoResult
    /\ result' = [op |-> "readIssues", ok |-> readIssues(issuesFile).ok,
                  recs |-> readIssues(issuesFile).recs,
                  n |-> Len(readIssues(issuesFile).recs), tpl |-> 0]
    /\ UNCHANGED <<issuesFile, templatesFile, lock, tplLock, tmp, now, ticks, pc, cmd,
                   lvl, deadline, wakeAt, buf, existing, err, out, opsStarted,
                   crashes, fs, budget>>

\* sd ready: readIssues(dir), then the filter; an error of the read ends
\* the command.
ReadyCmd ==
    /\ result = NoResult
    /\ LET r == readIssues(issuesFile)
       IN  result' = [op |-> "ready", ok |-> r.ok,
                      recs |-> IF r.ok THEN ready(r.recs) ELSE <<>>,
                      n |-> IF r.ok THEN Len(ready(r.recs)) ELSE 0,
                      tpl |-> 0]
    /\ UNCHANGED <<issuesFile, templatesFile, lock, tplLock, tmp, now, ticks, pc, cmd,
                   lvl, deadline, wakeAt, buf, existing, err, out, opsStarted,
                   crashes, fs, budget>>

\* sd blocked
BlockedCmd ==
    /\ result = NoResult
    /\ LET r == readIssues(issuesFile)
       IN  result' = [op |-> "blocked", ok |-> r.ok,
                      recs |-> IF r.ok THEN blocked(r.recs) ELSE <<>>,
                      n |-> IF r.ok THEN Len(blocked(r.recs)) ELSE 0,
                      tpl |-> 0]
    /\ UNCHANGED <<issuesFile, templatesFile, lock, tplLock, tmp, now, ticks, pc, cmd,
                   lvl, deadline, wakeAt, buf, existing, err, out, opsStarted,
                   crashes, fs, budget>>

\* sd stats: the blocked count among its figures
StatsCmd ==
    /\ result = NoResult
    /\ LET r == readIssues(issuesFile)
       IN  result' = [op |-> "stats", ok |-> r.ok, recs |-> <<>>,
                      n |-> IF r.ok THEN statsBlocked(r.recs) ELSE 0,
                      tpl |-> 0]
    /\ UNCHANGED <<issuesFile, templatesFile, lock, tplLock, tmp, now, ticks, pc, cmd,
                   lvl, deadline, wakeAt, buf, existing, err, out, opsStarted,
                   crashes, fs, budget>>

\* sd tpl status <templateId>: the blocked count of the convoy
TplStatusCmd(templateId) ==
    /\ result = NoResult
    /\ LET r == readIssues(issuesFile)
       IN  result' = [op |-> "tplstatus", ok |-> r.ok, recs |-> <<>>,
                      n |-> IF r.ok THEN tplStatusBlocked(r.recs, templateId)
                            ELSE 0,
                      tpl |-> templateId]
    /\ UNCHANGED <<issuesFile, templatesFile, lock, tplLock, tmp, now, ticks, pc, cmd,
                   lvl, deadline, wakeAt, buf, existing, err, out, opsStarted,
                   crashes, fs, budget>>

NextRead ==
    \/ ReadAllCmd
    \/ ReadyCmd
    \/ BlockedCmd
    \/ StatsCmd
    \/ \E t \in {1, 2} : TplStatusCmd(t)

SpecRead == InitRead /\ [][NextRead]_vars

\* ------------------------------------------ commands run one at a time

\* A store of three issues as the commands leave it: every dependency is
\* recorded on both sides.  d2 and d3 say what issues 2 and 3 depend on;
\* "dangling" is a blockedBy id of no issue, "self" an issue that depends on
\* itself (both as sd migrate-from-beads or a hand edit can bring in).
\* With 3 depending on 2 and 2 on 1 the store is a poured chain of convoy 1.
SeqStore(s1, s2, s3, d2, d3) ==
    LET cv == IF d2 = "on1" /\ d3 = "on2" THEN 1 ELSE NoConvoy
        seqOr(l) == IF l = <<>> THEN Absent ELSE l
        bb2 == IF d2 = "on1" THEN <<1>> ELSE <<>>
        bb3 == IF d3 = "on1" THEN <<1>>
               ELSE IF d3 = "on12" THEN <<1, 2>>
               ELSE IF d3 = "on2" THEN <<2>>
               ELSE IF d3 = "dangling" THEN <<4>>
               ELSE IF d3 = "self" THEN <<3>>
               ELSE <<>>
        bl1 == (IF d2 = "on1" THEN <<2>> ELSE <<>>)
               \o (IF d3 \in {"on1", "on12"} THEN <<3>> ELSE <<>>)
        bl2 == IF d3 \in {"on12", "on2"} THEN <<3>> ELSE <<>>
        bl3 == IF d3 = "self" THEN <<3>> ELSE <<>>
    IN  <<[LogIssue(1, s1, Absent) EXCEPT !.blocks = seqOr(bl1), !.convoy = cv],
          [LogIssue(2, s2, seqOr(bb2)) EXCEPT !.blocks = seqOr(bl2),
                                              !.convoy = cv],
          [LogIssue(3, s3, seqOr(bb3)) EXCEPT !.blocks = seqOr(bl3),
                                              !.convoy = cv]>>

SeqStores ==
    {SeqStore(s1, s2, s3, d2, d3) :
        s1 \in {"open", "closed"}, s2 \in Statuses, s3 \in Statuses,
        d2 \in {"none", "on1"},
        d3 \in {"none", "on1", "on12", "on2", "dangling", "self"}}
    \cup {<<>>}

\* The values of --prefix: plain text, text with the two-character
\* sequences "$$" and "$&" in it, and the placeholder itself.
Prefixes == {<<"P">>, <<"US", "$$">>, <<"Q", "$&">>, <<"{prefix}">>}

\* The commands run on these stores; id 4 is the id of no issue.
SeqCommands ==
    {[op |-> "close", ids |-> l, tpl |-> 0, st |-> "", prefix |-> <<>>] :
        l \in {<<1>>, <<2>>, <<3>>, <<4>>, <<1, 2>>, <<1, 4>>}}
    \cup {[op |-> o, ids |-> l, tpl |-> 0, st |-> "", prefix |-> <<>>] :
        o \in {"depadd", "deprm"},
        l \in {<<3, 1>>, <<3, 2>>, <<1, 3>>, <<3, 3>>, <<3, 4>>, <<4, 1>>}}
    \cup {[op |-> "update", ids |-> <<4>>, tpl |-> 0, st |-> "", prefix |-> <<>>],
          [op |-> "update", ids |-> <<2>>, tpl |-> 0, st |-> "in_progress", prefix |-> <<>>],
          [op |-> "update", ids |-> <<1>>, tpl |-> 0, st |-> "closed", prefix |-> <<>>]}
    \cup {[op |-> "pour", ids |-> <<>>, tpl |-> 1, st |-> "", prefix |-> x] :
            x \in Prefixes}

\* Any such store, no command running, the clock past the time the issues
\* were written; template 1 has one step more than in the concurrent runs,
\* so that a poured chain has a step after the second one.
InitSeq ==
    /\ issuesFile \in SeqStores
    /\ templatesFile = <<Template(1, StepsOfTpl1 + 1), Template(2, 0)>>
    /\ lock = NoLock
    /\ tplLock = NoLock
    /\ tmp = {}
    /\ now = 1
    /\ ticks = 0
    /\ pc = [p \in Procs |-> "idle"]
    /\ cmd = [p \in Procs |-> NoCmd]
    /\ lvl = [p \in Procs |-> "none"]
    /\ deadline = [p \in Procs |-> 0]
    /\ wakeAt = [p \in Procs |-> 0]
    /\ buf = [p \in Procs |-> <<>>]
    /\ existing = [p \in Procs |-> <<>>]
    /\ err = [p \in Procs |-> "none"]
    /\ out = {}
    /\ opsStarted = 0
    /\ crashes = 0
    /\ budget = 0
    /\ result = NoResult
    /\ fs = ProjectFs

\* Time passes while p waits in the acquireLock of a store function: the
\* timeout, or, when the process is suspended that long, the staleness
\* threshold.
Elapse(p, d) ==
    /\ pc[p] \in {"stat", "sleep"}
    /\ lvl[p] = "inner"
    /\ now < deadline[p]
    /\ now' = now + d
    /\ UNCHANGED <<issuesFile, templatesFile, lock, tplLock, tmp, ticks, pc, cmd, lvl,
                   deadline, wakeAt, buf, existing, err, out, opsStarted,
                   crashes, fs, budget, result>>

\* One process at a time: the next command starts when the last has ended.
\* tpl pour is run on the empty store, where generateId has fresh ids left.
StartSeq(c) ==
    /\ opsStarted < MaxSeqOps
    /\ c.op = "pour" => issuesFile = <<>>
    /\ Start(1, c)

NextSeq ==
    \/ \E c \in SeqCommands : StartSeq(c)
    \/ TryOpen(1)
    \/ Stat(1)
    \/ Unlink(1)
    \/ BlockRead(1)
    \/ WriteTmp(1)
    \/ Rename(1)
    \/ StoreRelease(1)
    \/ WithLockRelease(1)
    \/ \E d \in {LOCK_TIMEOUT_MS, LOCK_STALE_MS + 1} : Elapse(1, d)

SpecSeq == InitSeq /\ [][NextSeq]_vars

\* ------------------------------------------------------ sd doctor --fix

\* readRawLines: the non-blank lines, each parsed or marked with its error;
\* the fixes go through the parsed ones and dedup them through a Map.
readRawLines(lines) == SelectSeq(lines, LAMBDA l : l.kind # "blank")

ParsedIssues(lines) ==
    MapOf(<<>>, SelectSeq(readRawLines(lines), LAMBDA l : l.kind = "issue"))

\* checkReferentialIntegrity: some blockedBy or blocks id is the id of no
\* issue.
checkReferentialIntegrity(issues) ==
    \E k \in 1..Len(issues) :
        \E ref \in Range(OrEmpty(issues[k].blockedBy))
                     \cup Range(OrEmpty(issues[k].blocks)) :
            ref \notin IdsOf(issues)

\* checkBidirectionalConsistency: some blockedBy entry whose target exists
\* is not mirrored in the target's blocks, or the other way round.
checkBidirectionalConsistency(issues) ==
    \E k \in 1..Len(issues) :
        \/ \E ref \in Range(OrEmpty(issues[k].blockedBy)) :
              /\ ref \in IdsOf(issues)
              /\ issues[k].id \notin
                     Range(OrEmpty(issues[FindIndex(issues, ref)].blocks))
        \/ \E ref \in Range(OrEmpty(issues[k].blocks)) :
              /\ ref \in IdsOf(issues)
              /\ issues[k].id \notin
                     Range(OrEmpty(issues[FindIndex(issues, ref)].blockedBy))

\* checkDuplicateIds: the ids that the parsed lines of the file carry more
\* than once.
checkDuplicateIds(lines) ==
    LET parsed == SelectSeq(readRawLines(lines), LAMBDA l : l.kind = "issue")
    IN  {parsed[i].id : i \in {j \in 1..Len(parsed) :
                                  \E k \in 1..Len(parsed) :
                                      k # j /\ parsed[k].id = parsed[j].id}}

\* The fixable checks that fail, in the order applyFixes goes through
\* them: duplicate-ids on the lines of the file, the other two on the
\* collection run has read.
FailingChecks(lines, issues) ==
    (IF checkDuplicateIds(lines) # {} THEN <<"duplicate-ids">> ELSE <<>>)
    \o (IF checkReferentialIntegrity(issues)
        THEN <<"referential-integrity">> ELSE <<>>)
    \o (IF checkBidirectionalConsistency(issues)
        THEN <<"bidirectional-consistency">> ELSE <<>>)

\* fixDuplicates that keeps the first line of an id.
RECURSIVE MapOf_FirstWins(_, _)
MapOf_FirstWins(m, raw) ==
    IF raw = <<>> THEN m
    ELSE MapOf_FirstWins(MapSet_FirstWins(m, Head(raw)), Tail(raw))

fixDuplicates_FirstWins(lines) ==
    LET parsed == SelectSeq(readRawLines(lines), LAMBDA l : l.kind = "issue")
    IN  [changed |-> Len(MapOf_FirstWins(<<>>, parsed)) < Len(parsed),
         issues |-> MapOf_FirstWins(<<>>, parsed)]

\* fixDuplicates: the Map of the parsed lines, written when it has fewer
\* entries than there are parsed lines.
fixDuplicates(lines) ==
    LET parsed == SelectSeq(readRawLines(lines), LAMBDA l : l.kind = "issue")
    IN  [changed |-> Len(ParsedIssues(lines)) < Len(parsed),
         issues |-> ParsedIssues(lines)]

\* fixDanglingRefs that filters the blockedBy lists only.
fixDanglingRefs_BlockedByOnly(lines) ==
    LET deduped == ParsedIssues(lines)
        kept(l) == IF l = Absent THEN Absent
                   ELSE LET f == SelectSeq(l, LAMBDA ref :
                                              ref \in IdsOf(deduped))
                        IN  IF Len(f) = 0 THEN Absent ELSE f
        issues == [k \in 1..Len(deduped) |->
                      [deduped[k] EXCEPT !.blockedBy = kept(@)]]
    IN  [changed |->
            \E k \in 1..Len(deduped) :
                Len(OrEmpty(issues[k].blockedBy))
                    # Len(OrEmpty(deduped[k].blockedBy)),
         issues |-> issues]

\* fixDanglingRefs: drop from blockedBy and blocks the ids of no issue, a
\* list that becomes empty is set to undefined; changed when a length has
\* changed.
fixDanglingRefs(lines) ==
    LET deduped == ParsedIssues(lines)
        kept(l) == IF l = Absent THEN Absent
                   ELSE LET f == SelectSeq(l, LAMBDA ref :
                                              ref \in IdsOf(deduped))
                        IN  IF Len(f) = 0 THEN Absent ELSE f
        issues == [k \in 1..Len(deduped) |->
                      [deduped[k] EXCEPT !.blockedBy = kept(@),
                                         !.blocks = kept(@)]]
    IN  [changed |->
            \E k \in 1..Len(deduped) :
                \/ Len(OrEmpty(issues[k].blockedBy))
                      # Len(OrEmpty(deduped[k].blockedBy))
                \/ Len(OrEmpty(issues[k].blocks))
                      # Len(OrEmpty(deduped[k].blocks)),
         issues |-> issues]

\* for (const ref of refs): the target of ref, when it exists and its list
\* `field` lacks id, gets id appended to that list.
RECURSIVE AddLinks(_, _, _, _)
AddLinks(issues, refs, field, id) ==
    IF refs = <<>> THEN issues
    ELSE LET t == FindIndex(issues, Head(refs))
             next ==
                 IF t = 0 THEN issues
                 ELSE IF field = "blocks"
                 THEN IF id \in Range(OrEmpty(issues[t].blocks)) THEN issues
                      ELSE [issues EXCEPT ![t].blocks =
                               Append(OrEmpty(issues[t].blocks), id)]
                 ELSE IF id \in Range(OrEmpty(issues[t].blockedBy))
                      THEN issues
                      ELSE [issues EXCEPT ![t].blockedBy =
                               Append(OrEmpty(issues[t].blockedBy), id)]
         IN  AddLinks(next, Tail(refs), field, id)

\* The loop of fixBidirectional from issue k on: first the blockedBy ids of
\* the issue, then its blocks ids as they are after that.
RECURSIVE FixLinks(_, _)
FixLinks(issues, k) ==
    IF k > Len(issues) THEN issues
    ELSE LET one == AddLinks(issues, OrEmpty(issues[k].blockedBy), "blocks",
                             issues[k].id)
             two == AddLinks(one, OrEmpty(one[k].blocks), "blockedBy",
                             one[k].id)
         IN  FixLinks(two, k + 1)

\* fixBidirectional that adds the missing blocks entries only.
RECURSIVE FixLinks_BlocksOnly(_, _)
FixLinks_BlocksOnly(issues, k) ==
    IF k > Len(issues) THEN issues
    ELSE FixLinks_BlocksOnly(
             AddLinks(issues, OrEmpty(issues[k].blockedBy), "blocks",
                      issues[k].id), k + 1)

fixBidirectional_BlocksOnly(lines) ==
    LET deduped == ParsedIssues(lines)
        issues == FixLinks_BlocksOnly(deduped, 1)
    IN  [changed |-> issues # deduped, issues |-> issues]

\* fixBidirectional: add the missing side of every link whose target exists.
fixBidirectional(lines) ==
    LET deduped == ParsedIssues(lines)
        issues == FixLinks(deduped, 1)
    IN  [changed |-> issues # deduped, issues |-> issues]

\* run of sd doctor --fix: readIssues, the checks, and when a fixable check
\* fails applyFixes with the list of checks; the re-run of the checks
\* afterwards only reads.
DoctorRun(p) ==
    /\ pc[p] = "idle"
    /\ opsStarted < MaxSeqOps
    /\ opsStarted' = opsStarted + 1
    /\ LET r == readIssues(issuesFile)
       IN  IF ~r.ok \/ FailingChecks(issuesFile, r.recs) = <<>>
           THEN /\ out' = out \cup
                     {[op |-> "doctor", ids |-> {},
                       res |-> IF r.ok THEN "ok" ELSE "parse"]}
                /\ UNCHANGED <<pc, cmd>>
           ELSE /\ pc' = [pc EXCEPT ![p] = "fix_read"]
                /\ cmd' = [cmd EXCEPT ![p] =
                             [op |-> "doctor", ids |-> <<>>, tpl |-> 0,
                              st |-> "", prefix |-> <<>>,
                              checks |-> FailingChecks(issuesFile, r.recs)]]
                /\ UNCHANGED out
    /\ UNCHANGED <<issuesFile, templatesFile, lock, tplLock, tmp, now, ticks, lvl,
                   deadline, wakeAt, buf, existing, err, crashes, fs, budget,
                   result>>

\* applyFixes has gone through its checks: the command reports and ends.
\* Otherwise it goes on to the next check.
NextCheck(p) ==
    IF Len(cmd[p].checks) = 1
    THEN /\ out' = out \cup {[op |-> "doctor", ids |-> {}, res |-> "ok"]}
         /\ pc' = [pc EXCEPT ![p] = "idle"]
         /\ cmd' = [cmd EXCEPT ![p] = NoCmd]
    ELSE /\ pc' = [pc EXCEPT ![p] = "fix_read"]
         /\ cmd' = [cmd EXCEPT ![p].checks = Tail(@)]
         /\ UNCHANGED out

\* A fix function reads the file, with no lock, and computes the repaired
\* collection; when nothing has changed it does not write.
FixRead(p) ==
    /\ pc[p] = "fix_read"
    /\ LET fix == IF Head(cmd[p].checks) = "duplicate-ids"
                  THEN fixDuplicates(issuesFile)
                  ELSE IF Head(cmd[p].checks) = "referential-integrity"
                  THEN fixDanglingRefs(issuesFile)
                  ELSE fixBidirectional(issuesFile)
       IN  IF fix.changed
           THEN /\ buf' = [buf EXCEPT ![p] = fix.issues]
                /\ pc' = [pc EXCEPT ![p] = "fix_write"]
                /\ UNCHANGED <<cmd, out>>
           ELSE /\ NextCheck(p)
                /\ UNCHANGED buf
    /\ UNCHANGED <<issuesFile, templatesFile, lock, tplLock, tmp, now, ticks, lvl,
                   deadline, wakeAt, existing, err, opsStarted, crashes, fs,
                   budget, result>>

\* writeFileSync(join(seedsDir, ISSUES_FILE), content), with no lock, has
\* opened the file, which truncates it, and written part of the content.
FixTruncate(p) ==
    /\ pc[p] = "fix_write"
    /\ issuesFile' \in TornContents(buf[p])
    /\ pc' = [pc EXCEPT ![p] = "fix_finish"]
    /\ UNCHANGED <<templatesFile, lock, tplLock, tmp, now, ticks, cmd, lvl, deadline,
                   wakeAt, buf, existing, err, out, opsStarted, crashes, fs,
                   budget, result>>

\* writeFileSync(join(seedsDir, ISSUES_FILE), content) completes.
FixWrite(p) ==
    /\ pc[p] = "fix_finish"
    /\ issuesFile' = buf[p]
    /\ buf' = [buf EXCEPT ![p] = <<>>]
    /\ NextCheck(p)
    /\ UNCHANGED <<templatesFile, lock, tplLock, tmp, now, ticks, lvl, deadline,
                   wakeAt, existing, err, opsStarted, crashes, fs, budget,
                   result>>

\* The commands that run beside sd doctor --fix.
FixCommands ==
    {c \in SeqCommands :
        \/ c.op = "close" /\ c.ids \in {<<1>>, <<3>>}
        \/ c.op = "depadd" /\ c.ids = <<3, 3>>}

\* Process 1 runs commands, process 2 runs sd doctor --fix, at the same
\* time.
NextFix ==
    \/ \E c \in FixCommands : StartSeq(c)
    \/ TryOpen(1)
    \/ Stat(1)
    \/ Unlink(1)
    \/ BlockRead(1)
    \/ WriteTmp(1)
    \/ Rename(1)
    \/ StoreRelease(1)
    \/ WithLockRelease(1)
    \/ \E d \in {LOCK_TIMEOUT_MS, LOCK_STALE_MS + 1} : Elapse(1, d)
    \/ DoctorRun(2)
    \/ FixRead(2)
    \/ FixTruncate(2)
    \/ FixWrite(2)

SpecFix == InitSeq /\ [][NextFix]_vars

\* graph.get(node) ?? []: the blockedBy list of the issue with id node, the
\* empty list when it has none or when node is the id of no issue.
Deps(issues, node) ==
    IF FindIndex(issues, node) = 0 THEN <<>>
    ELSE OrEmpty(issues[FindIndex(issues, node)].blockedBy)

\* path.indexOf(node); 0 stands for -1.
IndexOf(path, node) ==
    IF \E i \in 1..Len(path) : path[i] = node
    THEN CHOOSE i \in 1..Len(path) :
            path[i] = node /\ \A j \in 1..(i - 1) : path[j] # node
    ELSE 0

\* dfs of checkCircularDependencies; st holds visited, inStack and cycles.
\* dfsEach is the loop over the blockedBy ids of a node.
RECURSIVE dfs(_, _, _, _), dfsEach(_, _, _, _)
dfsEach(issues, st, deps, path) ==
    IF deps = <<>> THEN st
    ELSE dfsEach(issues, dfs(issues, st, Head(deps), path), Tail(deps), path)

dfs(issues, st, node, path) ==
    IF node \in st.inStack
    THEN IF IndexOf(path, node) > 0
         THEN [st EXCEPT !.cycles =
                 Append(@, Append(SubSeq(path, IndexOf(path, node),
                                         Len(path)), node))]
         ELSE st
    ELSE IF node \in st.visited THEN st
    ELSE LET entered == [st EXCEPT !.visited = @ \cup {node},
                                   !.inStack = @ \cup {node}]
             done == dfsEach(issues, entered, Deps(issues, node),
                             Append(path, node))
         IN  [done EXCEPT !.inStack = @ \ {node}]

\* for (const id of graph.keys()) dfs(id, [])
RECURSIVE dfsFrom(_, _, _)
dfsFrom(issues, st, k) ==
    IF k > Len(issues) THEN st
    ELSE dfsFrom(issues, dfs(issues, st, issues[k].id, <<>>), k + 1)

\* A cycle check that searches from the first issue only.
checkCircularDependencies_FromFirst(issues) ==
    IF issues = <<>> THEN <<>>
    ELSE dfs(issues, [visited |-> {}, inStack |-> {}, cycles |-> <<>>],
             issues[1].id, <<>>).cycles

\* checkCircularDependencies: the cycles found, each as the sequence of ids
\* that is printed joined by arrows.
checkCircularDependencies(issues) ==
    dfsFrom(issues, [visited |-> {}, inStack |-> {}, cycles |-> <<>>],
            1).cycles

\* The blockedBy lists of the stores the cycle check is run on: no id, one
\* id or two different ids, of issues or of no issue.
DepLists ==
    {Absent}
    \cup {<<a>> : a \in 1..(MaxId + 1)}
    \cup {l \in {<<a, b>> : a \in 1..(MaxId + 1), b \in 1..(MaxId + 1)} :
              l[1] # l[2]}

\* A store with one issue per id, issue i depending on the ids of bb[i].
GraphStore(bb) == [i \in IdSpace |-> LogIssue(i, "open", bb[i])]

\* Any such store, no command running.
InitGraph ==
    /\ issuesFile \in {GraphStore(bb) : bb \in [IdSpace -> DepLists]}
    /\ templatesFile = InitTemplates
    /\ lock = NoLock
    /\ tplLock = NoLock
    /\ tmp = {}
    /\ now = 0
    /\ ticks = 0
    /\ pc = [p \in Procs |-> "idle"]
    /\ cmd = [p \in Procs |-> NoCmd]
    /\ lvl = [p \in Procs |-> "none"]
    /\ deadline = [p \in Procs |-> 0]
    /\ wakeAt = [p \in Procs |-> 0]
    /\ buf = [p \in Procs |-> <<>>]
    /\ existing = [p \in Procs |-> <<>>]
    /\ err = [p \in Procs |-> "none"]
    /\ out = {}
    /\ opsStarted = 0
    /\ crashes = 0
    /\ budget = 0
    /\ result = NoResult
    /\ fs = ProjectFs

\* sd doctor: the circular-dependencies check on the collection run has
\* read.
CyclesCmd ==
    /\ result = NoResult
    /\ LET r == readIssues(issuesFile)
       IN  result' = [op |-> "cycles", ok |-> r.ok,
                      recs |-> IF r.ok THEN checkCircularDependencies(r.recs)
                               ELSE <<>>,
                      n |-> 0, tpl |-> 0]
    /\ UNCHANGED <<issuesFile, templatesFile, lock, tplLock, tmp, now, ticks, pc, cmd,
                   lvl, deadline, wakeAt, buf, existing, err, out,
                   opsStarted, crashes, fs, budget>>

NextGraph == CyclesCmd

SpecGraph == InitGraph /\ [][NextGraph]_vars

\* ------------------------------------------- commands on the two files

\* The commands run side by side on the two files: create and tpl pour
\* lock issues.jsonl, tpl create and tpl step add lock templates.jsonl.
LockCommands ==
    {[op |-> o, ids |-> <<>>, tpl |-> t, st |-> "", prefix |-> <<"P">>] :
        o \in {"pour", "tplstep"}, t \in {1, MaxTplId}}
    \cup {[op |-> o, ids |-> <<>>, tpl |-> 0, st |-> "", prefix |-> <<>>] :
            o \in {"create", "tplcreate"}}

\* A tpl create is started when generateId has a template id left for it;
\* two commands are run, together or one after the other.
StartLocks(p, c) ==
    /\ c.op = "tplcreate" =>
           Len(templatesFile)
               + Cardinality({q \in Procs : cmd[q].op = "tplcreate"})
           < MaxTplId
    /\ opsStarted < MaxSeqOps
    /\ Start(p, c)

NextLocks ==
    \/ \E p \in Procs, c \in LockCommands : StartLocks(p, c)
    \/ \E p \in Procs : TryOpen(p)
    \/ \E p \in Procs : Stat(p)
    \/ \E p \in Procs : Unlink(p)
    \/ \E p \in Procs : BlockRead(p)
    \/ \E p \in Procs : WriteTmp(p)
    \/ \E p \in Procs : Rename(p)
    \/ \E p \in Procs : AppendRead(p)
    \/ \E p \in Procs : AppendTruncate(p)
    \/ \E p \in Procs : AppendFinish(p)
    \/ \E p \in Procs : StoreRelease(p)
    \/ \E p \in Procs : WithLockRelease(p)
    \/ \E p \in Procs, d \in {LOCK_TIMEOUT_MS, LOCK_STALE_MS + 1} :
           Elapse(p, d)

SpecLocks == Init /\ [][NextLocks]_vars

\* ------------------------------------------------------ root resolution

\* SEEDS_DIR_NAME, CONFIG_FILE
SEEDS_DIR_NAME == ".seeds"
CONFIG_FILE == "config.yaml"

\* A path is the sequence of its components, <<>> is the filesystem root.
\* The directories of the model: the main checkout m and a directory in it,
\* a second tree w and a directory in it, a directory o outside both.
Dirs == {<<>>, <<"m">>, <<"m", "s">>, <<"w">>, <<"w", "s">>, <<"o">>}

\* What gitCommonDir returns when git fails or prints nothing.
NullPath == <<"">>

\* dirname and join of node:path.
dirname(d) == IF d = <<>> THEN d ELSE SubSeq(d, 1, Len(d) - 1)
join(d, name) == Append(d, name)

\* Directory d is dir or lies below it.
Under(d, dir) == Len(d) >= Len(dir) /\ SubSeq(d, 1, Len(dir)) = dir

\* existsSync / Bun.file().exists() of a path that ends in
\* .seeds/config.yaml.
existsSync(path) ==
    /\ Len(path) >= 2
    /\ path[Len(path)] = CONFIG_FILE
    /\ path[Len(path) - 1] = SEEDS_DIR_NAME
    /\ dirname(dirname(path)) \in fs.seeds

\* gitCommonDir(cwd): git rev-parse --git-common-dir run in cwd, resolved
\* against cwd.  fs.git is "none" when there is no repository, "main" when
\* m is a checkout and w is not part of it, "worktree" when w is a working
\* tree added to m, "submodule" when m/s is a submodule of m.
gitCommonDir(cwd) ==
    IF fs.git = "none" THEN NullPath
    ELSE IF fs.git = "submodule" /\ Under(cwd, <<"m", "s">>)
    THEN <<"m", ".git", "modules", "s">>
    ELSE IF Under(cwd, <<"m">>) \/ (fs.git = "worktree" /\ Under(cwd, <<"w">>))
    THEN <<"m", ".git">>
    ELSE NullPath

\* resolveWorktreeRoot
resolveWorktreeRoot(candidateSeedsDir) ==
    LET candidateRoot == dirname(candidateSeedsDir)
        common == gitCommonDir(candidateRoot)
        mainRoot == IF common[Len(common)] = ".git" THEN dirname(common)
                    ELSE dirname(dirname(common))
        mainSeedsDir == join(mainRoot, SEEDS_DIR_NAME)
    IN  IF common = NullPath THEN candidateSeedsDir
        ELSE IF mainRoot = candidateRoot THEN candidateSeedsDir
        ELSE IF existsSync(join(mainSeedsDir, CONFIG_FILE)) THEN mainSeedsDir
        ELSE candidateSeedsDir

\* findSeedsDir: the loop from dir upwards.
RECURSIVE findSeedsDir(_)
findSeedsDir(dir) ==
    IF existsSync(join(join(dir, SEEDS_DIR_NAME), CONFIG_FILE))
    THEN [ok |-> TRUE, dir |-> resolveWorktreeRoot(join(dir, SEEDS_DIR_NAME))]
    ELSE IF dirname(dir) = dir THEN [ok |-> FALSE, dir |-> NullPath]
    ELSE findSeedsDir(dirname(dir))

\* Any of the layouts, any set of initialised directories.
FsLayouts ==
    [seeds : SUBSET Dirs, git : {"none", "main", "worktree", "submodule"}]

InitRoot ==
    /\ issuesFile = <<>>
    /\ templatesFile = InitTemplates
    /\ lock = NoLock
    /\ tplLock = NoLock
    /\ tmp = {}
    /\ now = 0
    /\ ticks = 0
    /\ pc = [p \in Procs |-> "idle"]
    /\ cmd = [p \in Procs |-> NoCmd]
    /\ lvl = [p \in Procs |-> "none"]
    /\ deadline = [p \in Procs |-> 0]
    /\ wakeAt = [p \in Procs |-> 0]
    /\ buf = [p \in Procs |-> <<>>]
    /\ existing = [p \in Procs |-> <<>>]
    /\ err = [p \in Procs |-> "none"]
    /\ out = {}
    /\ opsStarted = 0
    /\ crashes = 0
    /\ budget = 0
    /\ result = NoResult
    /\ fs \in FsLayouts

\* A command calls findSeedsDir() with start as the working directory.
FindCmd(start) ==
    /\ result = NoResult
    /\ result' = [op |-> "find", start |-> start,
                  ok |-> findSeedsDir(start).ok,
                  dir |-> findSeedsDir(start).dir]
    /\ UNCHANGED <<issuesFile, templatesFile, lock, tplLock, tmp, now, ticks,
                   pc, cmd, lvl, deadline, wakeAt, buf, existing, err, out,
                   opsStarted, crashes, budget, fs>>

NextRoot == \E start \in Dirs : FindCmd(start)

SpecRoot == InitRoot /\ [][NextRoot]_vars

\* ----------------------------------------- commands from the empty store

\* The commands run one after the other from the store sd init leaves.
GrowCommands ==
    {[op |-> "create", ids |-> <<>>, tpl |-> 0, st |-> "", prefix |-> <<>>],
     [op |-> "pour", ids |-> <<>>, tpl |-> 1, st |-> "", prefix |-> <<"P">>]}
    \cup {[op |-> "close", ids |-> <<i>>, tpl |-> 0, st |-> "",
            prefix |-> <<>>] : i \in IdSpace}
    \cup {[op |-> o, ids |-> <<a, b>>, tpl |-> 0, st |-> "", prefix |-> <<>>] :
            o \in {"depadd", "deprm"}, a \in IdSpace, b \in IdSpace}
    \cup {[op |-> "update", ids |-> <<i>>, tpl |-> 0, st |-> x,
            prefix |-> <<>>] : i \in IdSpace, x \in Statuses}

\* One process at a time: the next command starts when the last has ended.
StartGrow(c) ==
    /\ \A p \in Procs : pc[p] = "idle"
    /\ Start(1, c)

NextGrow ==
    \/ \E c \in GrowCommands : StartGrow(c)
    \/ TryOpen(1)
    \/ Stat(1)
    \/ Unlink(1)
    \/ BlockRead(1)
    \/ WriteTmp(1)
    \/ Rename(1)
    \/ AppendRead(1)
    \/ AppendTruncate(1)
    \/ AppendFinish(1)
    \/ StoreRelease(1)
    \/ WithLockRelease(1)
    \/ \E d \in {LOCK_TIMEOUT_MS, LOCK_STALE_MS + 1} : Elapse(1, d)

SpecGrow == Init /\ [][NextGrow]_vars

\* --------------------------------- acquireLock beside a busy sentinel

\* The commands whose acquireLock is followed through.
AcquireCommands == {c \in GrowCommands : c.op \in {"create", "close"}}

StartAcquire(c) ==
    /\ opsStarted < MaxSeqOps
    /\ Start(1, c)

\* Another process's openSync(lock, O_CREAT | O_EXCL) succeeds: the sentinel
\* of issues.jsonl appears.
OtherCreates ==
    /\ lock = NoLock
    /\ lock' = [mtime |-> now, by |-> 2]
    /\ UNCHANGED <<issuesFile, templatesFile, tplLock, tmp, now, ticks, pc,
                   cmd, lvl, deadline, wakeAt, buf, existing, err, out,
                   opsStarted, crashes, budget, result, fs>>

\* The other process's releaseLock: the sentinel it made is unlinked.
OtherRemoves ==
    /\ lock # NoLock
    /\ lock.by = 2
    /\ lock' = NoLock
    /\ UNCHANGED <<issuesFile, templatesFile, tplLock, tmp, now, ticks, pc,
                   cmd, lvl, deadline, wakeAt, buf, existing, err, out,
                   opsStarted, crashes, budget, result, fs>>

\* Date.now() advances while p is in acquireLock and its deadline has not
\* come.
Pass(p, d) ==
    /\ pc[p] \in {"open", "stat", "unlink", "sleep"}
    /\ now < deadline[p]
    /\ now' = now + d
    /\ UNCHANGED <<issuesFile, templatesFile, lock, tplLock, tmp, ticks, pc,
                   cmd, lvl, deadline, wakeAt, buf, existing, err, out,
                   opsStarted, crashes, budget, result, fs>>

NextAcquire ==
    \/ \E c \in AcquireCommands : StartAcquire(c)
    \/ TryOpen(1)
    \/ Stat(1)
    \/ Unlink(1)
    \/ BlockRead(1)
    \/ WriteTmp(1)
    \/ Rename(1)
    \/ AppendRead(1)
    \/ AppendTruncate(1)
    \/ AppendFinish(1)
    \/ StoreRelease(1)
    \/ WithLockRelease(1)
    \/ OtherCreates
    \/ OtherRemoves
    \/ \E d \in {LOCK_TIMEOUT_MS, LOCK_STALE_MS + 1} : Pass(1, d)

\* The scheduler lets the process in acquireLock run, the clock advances,
\* and a process that holds the sentinel releases it.
FairAcquire ==
    /\ WF_vars(TryOpen(1))
    /\ WF_vars(Stat(1))
    /\ WF_vars(Unlink(1))
    /\ WF_vars(OtherRemoves)
    /\ WF_vars(\E d \in {LOCK_TIMEOUT_MS, LOCK_STALE_MS + 1} : Pass(1, d))

SpecAcquire == Init /\ [][NextAcquire]_vars /\ FairAcquire

\* ------------------------------------- a holder killed, then a command

\* The process that will be killed starts the first command.
StartHolder(c) ==
    /\ opsStarted = 0
    /\ Start(2, c)

\* The sentinel of the killed process ages with no command running.
Age ==
    /\ \A p \in Procs : pc[p] = "idle"
    /\ crashes = MaxCrashes
    /\ lock # NoLock
    /\ ~IsStale(lock.mtime, now)
    /\ now' = now + LOCK_STALE_MS + 1
    /\ UNCHANGED <<issuesFile, templatesFile, lock, tplLock, tmp, ticks, pc,
                   cmd, lvl, deadline, wakeAt, buf, existing, err, out,
                   opsStarted, crashes, budget, result, fs>>

\* The commands run after the kill, one at a time, in process 1.
StartAfter(c) ==
    /\ crashes = MaxCrashes
    /\ opsStarted <= MaxSeqOps
    /\ Start(1, c)

\* The steps of the process that runs after the kill.
StepAfter ==
    \/ TryOpen(1)
    \/ Stat(1)
    \/ Unlink(1)
    \/ BlockRead(1)
    \/ WriteTmp(1)
    \/ Rename(1)
    \/ AppendRead(1)
    \/ AppendTruncate(1)
    \/ AppendFinish(1)
    \/ StoreRelease(1)
    \/ WithLockRelease(1)

NextOrphan ==
    \/ \E c \in AcquireCommands : StartHolder(c)
    \/ TryOpen(2)
    \/ Crash(2)
    \/ Age
    \/ \E c \in AcquireCommands : StartAfter(c)
    \/ StepAfter
    \/ \E d \in {LOCK_TIMEOUT_MS, LOCK_STALE_MS + 1} : Pass(1, d)

\* A command that is not killed keeps running, and the clock advances.
FairOrphan ==
    /\ WF_vars(StepAfter)
    /\ WF_vars(\E d \in {LOCK_TIMEOUT_MS, LOCK_STALE_MS + 1} : Pass(1, d))

SpecOrphan == Init /\ [][NextOrphan]_vars /\ FairOrphan

\* ------------------------------------------------------------ generateId

\* The digits a hex string is made of in the model.
HexBase == 2

HexDigits == 0..(HexBase - 1)

\* attempts < 100, makeId(4), makeId(8)
MaxAttempts == 100

ShortLen == 4

LongLen == 8

\* makeId(hexLen): `${prefix}-${hexLen random hex digits}`; any of these.
makeId(prefix, hexLen) == {<<prefix, h>> : h \in [1..hexLen -> HexDigits]}

\* An idSet.has that finds nothing.
has_Never(idSet, id) == FALSE

\* idSet.has(id)
has(idSet, id) == id \in idSet

IdPrefixes == {"proj", "tpl"}

\* The sets of existing ids generateId is called with: none, one id, an id
\* of the other prefix, every 4-digit id of the prefix, those and one
\* 8-digit id, those and every 8-digit id but one.
ExistingSets(prefix) ==
    LET one == <<prefix, [i \in 1..ShortLen |-> 0]>>
        long == <<prefix, [i \in 1..LongLen |-> 0]>>
    IN  {{}, {one},
         makeId(CHOOSE q \in IdPrefixes : q # prefix, ShortLen),
         makeId(prefix, ShortLen),
         makeId(prefix, ShortLen) \cup {long},
         makeId(prefix, ShortLen) \cup (makeId(prefix, LongLen) \ {long})}

NoId == <<>>

\* generateId has been called, by either of its two texts: the loop of
\* id.ts or the recursion with a retries argument.
InitId ==
    /\ issuesFile = <<>>
    /\ templatesFile = InitTemplates
    /\ lock = NoLock
    /\ tplLock = NoLock
    /\ tmp = {}
    /\ now = 0
    /\ ticks = 0
    /\ pc = [p \in Procs |-> "idle"]
    /\ cmd = [p \in Procs |-> NoCmd]
    /\ lvl = [p \in Procs |-> "none"]
    /\ deadline = [p \in Procs |-> 0]
    /\ wakeAt = [p \in Procs |-> 0]
    /\ buf = [p \in Procs |-> <<>>]
    /\ existing = [p \in Procs |-> <<>>]
    /\ err = [p \in Procs |-> "none"]
    /\ out = {}
    /\ opsStarted = 0
    /\ crashes = 0
    /\ budget = 0
    /\ fs = ProjectFs
    /\ \E ver \in {"loop", "rec"}, prefix \in IdPrefixes :
           \E idSet \in ExistingSets(prefix) :
               result = [op |-> "generateId", ver |-> ver, prefix |-> prefix,
                         existing |-> idSet, attempts |-> 0, id |-> NoId,
                         done |-> FALSE]

\* One candidate of generateId of id.ts: makeId(4) while attempts < 100,
\* makeId(8) afterwards; returned when idSet does not have it, else
\* attempts++ in the first loop and another round in the second.
GenerateIdLoop ==
    /\ result.op = "generateId"
    /\ result.ver = "loop"
    /\ ~result.done
    /\ \E id \in makeId(result.prefix,
                         IF result.attempts < MaxAttempts THEN ShortLen
                         ELSE LongLen) :
           result' =
               IF ~has(result.existing, id)
               THEN [result EXCEPT !.id = id, !.done = TRUE]
               ELSE IF result.attempts < MaxAttempts
               THEN [result EXCEPT !.attempts = @ + 1]
               ELSE result
    /\ UNCHANGED <<issuesFile, templatesFile, lock, tplLock, tmp, now, ticks,
                   pc, cmd, lvl, deadline, wakeAt, buf, existing, err, out,
                   opsStarted, crashes, budget, fs>>

\* One call of the recursive generateId(prefix, existing, retries): hexLen
\* is 8 when retries >= 100 and 4 otherwise; a candidate that existing has
\* leads to the call with retries + 1.  Only retries >= 100 is ever tested,
\* so the count is not kept beyond MaxAttempts.
GenerateIdRec ==
    /\ result.op = "generateId"
    /\ result.ver = "rec"
    /\ ~result.done
    /\ \E id \in makeId(result.prefix,
                         IF result.attempts >= MaxAttempts THEN LongLen
                         ELSE ShortLen) :
           result' =
               IF has(result.existing, id)
               THEN [result EXCEPT !.attempts =
                        IF @ >= MaxAttempts THEN @ ELSE @ + 1]
               ELSE [result EXCEPT !.id = id, !.done = TRUE]
    /\ UNCHANGED <<issuesFile, templatesFile, lock, tplLock, tmp, now, ticks,
                   pc, cmd, lvl, deadline, wakeAt, buf, existing, err, out,
                   opsStarted, crashes, budget, fs>>

NextId ==
    \/ GenerateIdLoop
    \/ GenerateIdRec

\* The call keeps running, and randomBytes, which gives every candidate
\* with positive probability at every draw, eventually gives one that the
\* set does not have when there is one.
FairId ==
    /\ WF_vars(GenerateIdLoop)
    /\ WF_vars(GenerateIdRec)
    /\ WF_vars(GenerateIdLoop /\ result'.done)
    /\ WF_vars(GenerateIdRec /\ result'.done)

SpecId == InitId /\ [][NextId]_vars /\ FairId

\* A line of an issues.jsonl with defects for the audit to find.
DoctorIssue(id, bb, bl) == [LogIssue(id, "open", bb) EXCEPT !.blocks = bl]

\* The lines of those logs: links recorded on both sides, on one side only,
\* to an id of no issue (alone in a list, before or after the id of an
\* issue), to the issue itself, empty lists, a blank line and a line that
\* is not JSON.  The same id on two lines is a duplicate; issue 2 can both
\* depend on issue 1 and block it.
DoctorLines ==
    {DoctorIssue(1, Absent, Absent), DoctorIssue(1, Absent, <<3>>),
     DoctorIssue(1, <<4>>, <<3, 4>>), DoctorIssue(1, <<2>>, Absent),
     DoctorIssue(2, Absent, Absent), DoctorIssue(2, <<1>>, Absent),
     DoctorIssue(2, Absent, <<1>>), DoctorIssue(2, <<1>>, <<1>>),
     DoctorIssue(3, Absent, Absent), DoctorIssue(3, <<1>>, Absent),
     DoctorIssue(3, <<1, 4>>, Absent), DoctorIssue(3, <<4, 1>>, <<4>>),
     DoctorIssue(3, <<3>>, Absent), DoctorIssue(3, <<>>, <<>>),
     BlankLine, BadLine}

DoctorLogs == UNION {[1..n -> DoctorLines] : n \in 0..MaxLines}

\* Any such log, no command running.
InitDoctor ==
    /\ issuesFile \in DoctorLogs
    /\ templatesFile = InitTemplates
    /\ lock = NoLock
    /\ tplLock = NoLock
    /\ tmp = {}
    /\ now = 0
    /\ ticks = 0
    /\ pc = [p \in Procs |-> "idle"]
    /\ cmd = [p \in Procs |-> NoCmd]
    /\ lvl = [p \in Procs |-> "none"]
    /\ deadline = [p \in Procs |-> 0]
    /\ wakeAt = [p \in Procs |-> 0]
    /\ buf = [p \in Procs |-> <<>>]
    /\ existing = [p \in Procs |-> <<>>]
    /\ err = [p \in Procs |-> "none"]
    /\ out = {}
    /\ opsStarted = 0
    /\ crashes = 0
    /\ budget = 0
    /\ result = NoResult
    /\ fs = ProjectFs

\* sd doctor --fix alone, on any such log, run after run; the process can
\* be killed at any point.
NextDoctor ==
    \/ DoctorRun(2)
    \/ FixRead(2)
    \/ FixTruncate(2)
    \/ FixWrite(2)
    \/ Crash(2)

SpecDoctor == InitDoctor /\ [][NextDoctor]_vars

\* ================================================================= claims

\* p is inside the section the issues lock guards: an acquireLock of p has
\* returned (withLock's, or the store function's) and the release that
\* matches the first of them has not run yet.
InCS(p) ==
    \/ pc[p] \in {"blk_read", "wr_tmp", "wr_rename", "ap_read", "ap_write",
                  "ap_finish", "st_release", "wl_release"}
    \/ lvl[p] = "inner" /\ pc[p] \in {"open", "stat", "unlink", "sleep"}

\* C1 (lock mutual exclusion): at any instant at most one process is between
\* a successful acquisition of the issues lock and its release.
C1_MutualExclusion ==
    \A p \in Procs, q \in Procs : p # q => ~(InCS(p) /\ InCS(q))

\* C1, the case of the race in the stale check: a process was killed, no
\* command has finished, and two commands that both started at the current
\* clock reading are inside the section together; neither has held the
\* lock for any measurable time.
C1_StaleRace ==
    \E p \in Procs, q \in Procs :
        /\ p # q
        /\ crashes = 1 /\ out = {}
        /\ InCS(p) /\ InCS(q)
        /\ lvl[p] = "outer" /\ lvl[q] = "outer"
        /\ now > LOCK_STALE_MS
        /\ deadline[p] = now + LOCK_TIMEOUT_MS
        /\ deadline[q] = now + LOCK_TIMEOUT_MS

\* No command is running.
Quiescent == \A p \in Procs : pc[p] = "idle"

\* C2 (total order of read-modify-write, no lost update): when every
\* command has run to its end and none was killed, the file holds the effect
\* of each command that reported success: the ids it created are in the
\* collection, the ids it closed are closed.
C2_NoLostUpdate ==
    (Quiescent /\ crashes = 0) =>
        LET r == readIssues(issuesFile)
        IN  \A m \in out :
                m.res = "ok" =>
                    /\ r.ok
                    /\ m.ids \subseteq IdsOf(r.recs)
                    /\ m.op = "close" =>
                           \A i \in 1..Len(r.recs) :
                               r.recs[i].id \in m.ids =>
                                   r.recs[i].status = "closed"

\* The issues of a collection that tpl pour created.
ConvoyIssues(recs) == SelectSeq(recs, LAMBDA i : i.convoy # NoConvoy)

\* Every poured issue a reader finds is there with its whole chain: the
\* issue it is blockedBy and the issue it blocks are poured issues of the
\* same convoy that name it in return.
ChainComplete(recs) ==
    LET cs == ConvoyIssues(recs)
        Has(id, cv, field, back) ==
            \E j \in 1..Len(cs) :
                /\ cs[j].id = id
                /\ cs[j].convoy = cv
                /\ back \in Range(OrEmpty(cs[j][field]))
    IN  \A i \in 1..Len(cs) :
            /\ \A b \in Range(OrEmpty(cs[i].blockedBy)) :
                   Has(b, cs[i].convoy, "blocks", cs[i].id)
            /\ \A b \in Range(OrEmpty(cs[i].blocks)) :
                   Has(b, cs[i].convoy, "blockedBy", cs[i].id)
            /\ StepsOfTpl1 > 1 =>
                   cs[i].blockedBy # Absent \/ cs[i].blocks # Absent

\* C3 (pour is all-or-nothing): at every instant a reader of issues.jsonl
\* sees none of the issues of a pour or all of them with their wiring.
C3_PourAllOrNothing ==
    LET r == readIssues(issuesFile)
    IN  r.ok => ChainComplete(r.recs)

\* C4 (readers never see a partial file): while a single-record append is
\* being written, a lock-free reader of issues.jsonl finds the complete
\* content from before the append or the complete content after it.
C4_AppendNeverPartial ==
    \A p \in Procs :
        (pc[p] = "ap_finish" /\ crashes = 0 /\ \A q \in Procs \ {p} : ~InCS(q)) =>
            issuesFile \in {existing[p], existing[p] \o buf[p]}

\* Process p is killed between Bun.write(tmpFile, content) and renameSync.
CrashBeforeRename(p) ==
    pc[p] = "wr_rename" /\ pc'[p] = "idle" /\ crashes' = crashes + 1

\* C5 (crash between temp-file write and rename): writing the temporary
\* file adds that file and changes nothing else, and a kill before the
\* rename changes no file at all; so on the next read the data file is what
\* it was when the rewrite began, and of the rewrite only the orphaned
\* temporary file is left.
C5_CrashBeforeRename ==
    [][\A p \in Procs :
          /\ (pc[p] = "wr_tmp" /\ pc'[p] = "wr_rename") =>
                 /\ issuesFile' = issuesFile
                 /\ templatesFile' = templatesFile
                 /\ lock' = lock
                 /\ tmp' = tmp \cup {[by |-> p, content |-> buf[p]]}
          /\ CrashBeforeRename(p) =>
                 /\ issuesFile' = issuesFile
                 /\ templatesFile' = templatesFile
                 /\ lock' = lock
                 /\ tmp' = tmp
                 /\ [by |-> p, content |-> buf[p]] \in tmp']_vars

\* C5: a writer was killed before its rename; its temporary file is
\* orphaned, the sentinel it created is still there, and the data file does
\* not hold what it was about to write.
C5_Witness ==
    \E f \in tmp :
        /\ pc[f.by] = "idle"
        /\ crashes = 1
        /\ lock # NoLock /\ lock.by = f.by
        /\ issuesFile # f.content

\* Where a process is while it runs the body of appendIssue / writeIssues,
\* between their acquireLock and the end of their finally.
StoreBody == {"wr_tmp", "wr_rename", "ap_read", "ap_write", "ap_finish",
              "st_release"}

\* C8 (release on every exit path): when appendIssue / writeIssues leaves
\* its protected body, by return or by throw, the sentinel is gone in the
\* step that takes it back to its caller; only a killed process leaves the
\* body without releasing.
C8_ReleaseOnEveryExit ==
    [][\A p \in Procs :
          (pc[p] \in StoreBody /\ pc'[p] \notin StoreBody /\ crashes' = crashes)
              => lock' = NoLock]_vars

\* C8: a writeIssues whose write failed has gone back to its caller with the
\* error, another command has returned normally before, and no sentinel is
\* left: the next acquisition succeeds at its first openSync.
C8_Witness ==
    /\ lock = NoLock
    /\ crashes = 0
    /\ \E p \in Procs : pc[p] = "wl_release" /\ err[p] = "io"
    /\ \E m \in out : m.res = "ok"

\* acquireLock of p throws its timeout in this step.
TimedOut(p) ==
    /\ pc[p] = "stat"
    /\ crashes' = crashes
    /\ \/ pc'[p] = "wl_release" /\ err'[p] = "timeout"
       \/ pc'[p] = "idle"

\* C9 (lock timeout): a process that finds the sentinel present and not
\* stale when its deadline has passed fails with the timeout error; it fails
\* that way only then; and no step of its wait, the failing one included,
\* modifies the data file, writes a temporary file or touches a sentinel
\* that is in place.
C9_TimeoutLeavesAllUntouched ==
    [][\A p \in Procs :
          /\ TimedOut(p) =>
                 /\ now >= deadline[p]
                 /\ lock # NoLock /\ ~IsStale(lock.mtime, now)
                 /\ lock' = lock
                 /\ issuesFile' = issuesFile
                 /\ tmp' = tmp
          /\ (/\ pc[p] = "stat" /\ pc'[p] # pc[p] /\ crashes' = crashes
              /\ lock # NoLock /\ ~IsStale(lock.mtime, now)
              /\ now >= deadline[p]) => TimedOut(p)
          /\ (pc[p] \in {"open", "stat", "sleep"} /\ pc'[p] # pc[p]) =>
                 /\ issuesFile' = issuesFile
                 /\ tmp' = tmp
                 /\ lock # NoLock => lock' = lock]_vars

\* C9: of two commands, one has failed with the timeout error while the
\* other, which took the lock before the clock advanced, is still inside its
\* section with its sentinel in place.
C9_Witness ==
    /\ opsStarted = 2
    /\ crashes = 0
    /\ \E m \in out : m.res = "timeout"
    /\ \E q \in Procs :
           /\ InCS(q)
           /\ lock # NoLock /\ lock.by = q
           /\ lock.mtime < now
           /\ ~IsStale(lock.mtime, now)

\* The lines of the log that are records.
RecordsOf(lines) == SelectSeq(lines, LAMBDA l : l.kind = "issue")

\* The last record of id in the log.
LastOf(lines, id) ==
    LET recs == RecordsOf(lines)
    IN  recs[CHOOSE i \in 1..Len(recs) :
                 recs[i].id = id /\ \A j \in (i + 1)..Len(recs) : recs[j].id # id]

\* C6 (dedup on read): whenever readIssues returns, it returns for every id
\* that has a record in the log exactly one record, equal to the last record
\* of that id in file order, and no record of any other id.
C6_DedupLastWins ==
    (result.op = "readIssues" /\ result.ok) =>
        LET recs == result.recs
        IN  /\ \A id \in IdsOf(RecordsOf(issuesFile)) :
                   /\ Cardinality({i \in 1..Len(recs) : recs[i].id = id}) = 1
                   /\ \E i \in 1..Len(recs) : recs[i] = LastOf(issuesFile, id)
            /\ IdsOf(recs) = IdsOf(RecordsOf(issuesFile))

\* C6: the log holds three records, the first and the last of the same id
\* and different, and the read has returned two.
C6_Witness ==
    /\ result.op = "readIssues" /\ result.ok
    /\ Len(RecordsOf(issuesFile)) = 3
    /\ RecordsOf(issuesFile)[1].id = RecordsOf(issuesFile)[3].id
    /\ RecordsOf(issuesFile)[1] # RecordsOf(issuesFile)[3]
    /\ RecordsOf(issuesFile)[2].id # RecordsOf(issuesFile)[1].id
    /\ Len(result.recs) = 2

\* C7 (malformed line skipped): a read of a log never fails; it returns the
\* canonical collection of the lines that are records, whatever the other
\* lines hold, and the commands that read keep working.
C7_MalformedLineSkipped ==
    result.op # "none" =>
        /\ result.ok
        /\ result.op = "readIssues" =>
               result.recs = MapOf(<<>>, RecordsOf(issuesFile))

\* The issues of a collection that are ready by the definition: open, and
\* every id in blockedBy is the id of an issue of the collection that is
\* closed.
IsReady(coll, i) ==
    /\ i.status = "open"
    /\ \A b \in Range(OrEmpty(i.blockedBy)) :
           \E j \in 1..Len(coll) : coll[j].id = b /\ coll[j].status = "closed"

\* C10 (ready set): whenever sd ready reports, it reports exactly the issues
\* of the collection that are open and whose blockedBy ids all refer to
\* existing closed issues; an id that is no issue of the collection blocks.
C10_ReadySet ==
    (result.op = "ready" /\ result.ok) =>
        LET coll == readIssues(issuesFile).recs
        IN  /\ Range(result.recs) \subseteq Range(coll)
            /\ \A i \in Range(coll) :
                   i \in Range(result.recs) <=> IsReady(coll, i)

\* C10: sd ready has reported an issue whose blocker is closed and has left
\* out an open issue whose only blocker is no issue of the collection.
C10_Witness ==
    /\ result.op = "ready" /\ result.ok
    /\ \E i \in Range(result.recs) : OrEmpty(i.blockedBy) # <<>>
    /\ \E i \in Range(readIssues(issuesFile).recs) :
           /\ i.status = "open"
           /\ i.blockedBy = <<4>>
           /\ i \notin Range(result.recs)

\* An issue of a collection is blocked by the definition: not closed, and
\* some id in blockedBy is the id of no closed issue of the collection.
IsBlocked(coll, i) ==
    /\ i.status # "closed"
    /\ \E b \in Range(OrEmpty(i.blockedBy)) :
           ~\E j \in 1..Len(coll) : coll[j].id = b /\ coll[j].status = "closed"

\* C11 (blocked set): sd blocked lists exactly the issues that are blocked
\* by the definition, sd stats counts exactly those, and sd tpl status
\* counts exactly those of the convoy; so the three agree on every store.
C11_BlockedSet ==
    (result.op \in {"blocked", "stats", "tplstatus"} /\ result.ok) =>
        LET coll == readIssues(issuesFile).recs
            isB == {k \in 1..Len(coll) : IsBlocked(coll, coll[k])}
        IN  /\ result.op = "blocked" =>
                   /\ Range(result.recs) = {coll[k] : k \in isB}
                   /\ result.n = Cardinality(isB)
            /\ result.op = "stats" => result.n = Cardinality(isB)
            /\ result.op = "tplstatus" =>
                   result.n =
                       Cardinality({k \in isB : coll[k].convoy = result.tpl})

\* C11: on a store with an issue of the convoy blocked by an open issue and
\* an issue outside the convoy blocked by an id that is no issue, tpl status
\* has counted one blocked issue.
C11_Witness ==
    /\ result.op = "tplstatus" /\ result.ok /\ result.tpl = 1
    /\ result.n = 1
    /\ statsBlocked(readIssues(issuesFile).recs) = 2
    /\ Len(blocked(readIssues(issuesFile).recs)) = 2

\* The step at which a command of kind op replaces issues.jsonl by what it
\* has computed.
Rewrites(op) ==
    /\ cmd[1].op = op
    /\ pc[1] = "wr_rename"
    /\ pc'[1] = "st_release"

\* The command of kind op has just replaced issues.jsonl; existing[1] is the
\* collection it had read.
Rewrote(op) ==
    /\ cmd[1].op = op
    /\ pc[1] = "st_release"
    /\ err[1] = "none"

\* The time at which the block of the running command computed what is
\* written: the store function it then called set its deadline from it.
BlockTime == deadline[1] - LOCK_TIMEOUT_MS

\* The issue of collection coll with id y.
IssueOf(coll, y) == CHOOSE i \in Range(coll) : i.id = y

\* C12 (readiness is monotone under close, as the code has it): at the step
\* a close command rewrites the store, no issue other than the closed ones
\* that was ready stops being ready, none that was not blocked becomes
\* blocked, and one whose classification changes was blocked and is no
\* longer: it is ready if it is open and in neither set if it is in
\* progress.
C12_CloseNeverBlocks ==
    [][Rewrites("close") =>
        LET pre == readIssues(issuesFile).recs
            post == readIssues(issuesFile').recs
        IN  \A y \in IdsOf(pre) \ Range(cmd[1].ids) :
                LET a == IssueOf(pre, y)
                    b == IssueOf(post, y)
                IN  /\ IsReady(pre, a) => IsReady(post, b)
                    /\ IsBlocked(post, b) => IsBlocked(pre, a)
                    /\ \/ /\ IsReady(post, b) <=> IsReady(pre, a)
                          /\ IsBlocked(post, b) <=> IsBlocked(pre, a)
                       \/ /\ IsBlocked(pre, a) /\ ~IsBlocked(post, b)
                          /\ IsReady(post, b) <=> b.status = "open"]_vars

\* C12 as the claim words it: every issue other than the closed ones either
\* moves from blocked to ready or keeps its ready/blocked classification.
C12_BlockedToReadyOrUnchanged ==
    [][Rewrites("close") =>
        LET pre == readIssues(issuesFile).recs
            post == readIssues(issuesFile').recs
        IN  \A y \in IdsOf(pre) \ Range(cmd[1].ids) :
                LET a == IssueOf(pre, y)
                    b == IssueOf(post, y)
                IN  \/ /\ IsReady(post, b) <=> IsReady(pre, a)
                       /\ IsBlocked(post, b) <=> IsBlocked(pre, a)
                    \/ IsBlocked(pre, a) /\ IsReady(post, b)]_vars

\* C12: a close of issue 1 has been written that moved the open issue 2 from
\* blocked to ready and the in-progress issue 3 from blocked to neither set.
C12_Witness ==
    /\ Rewrote("close") /\ cmd[1].ids = <<1>>
    /\ LET pre == existing[1]
           post == readIssues(issuesFile).recs
       IN  /\ IsBlocked(pre, IssueOf(pre, 2))
           /\ IsReady(post, IssueOf(post, 2))
           /\ IsBlocked(pre, IssueOf(pre, 3))
           /\ IssueOf(post, 3).status = "in_progress"
           /\ ~IsBlocked(post, IssueOf(post, 3))
           /\ ~IsReady(post, IssueOf(post, 3))

\* The blockedBy ids of issue i that are not ids of closed issues of coll.
Unclosed(coll, i) ==
    {b \in Range(OrEmpty(i.blockedBy)) :
        ~\E j \in 1..Len(coll) : coll[j].id = b /\ coll[j].status = "closed"}

\* The ids sd ready lists on collection coll.
ReadyIds(coll) == {i.id : i \in Range(ready(coll))}

\* C13 (the last blocker): at the step a close command rewrites the store,
\* an issue other than the closed ones enters the list of sd ready exactly
\* when it is open, had an unclosed blocker, and every blocker it had
\* unclosed is closed by this step; so an issue blocked by 1 and 2 is still
\* listed by sd blocked after 1 alone is closed, and by sd ready once 2 is
\* closed too.
C13_ReadyAtLastBlocker ==
    [][Rewrites("close") =>
        LET pre == readIssues(issuesFile).recs
            post == readIssues(issuesFile').recs
        IN  \A y \in IdsOf(pre) \ Range(cmd[1].ids) :
                LET a == IssueOf(pre, y)
                IN  /\ (y \notin ReadyIds(pre) /\ y \in ReadyIds(post))
                       <=> /\ a.status = "open"
                           /\ Unclosed(pre, a) # {}
                           /\ Unclosed(pre, a) \subseteq Range(cmd[1].ids)
                    /\ (a.status # "closed" /\ Unclosed(post, a) # {})
                       => /\ y \notin ReadyIds(post)
                          /\ y \in {i.id : i \in Range(blocked(post))}]_vars

\* C13: issue 3 depends on 1 and 2; a first command has closed 1, after
\* which 3 was still blocked, and a second has now closed 2, after which 3
\* is ready.
C13_Witness ==
    /\ Rewrote("close") /\ cmd[1].ids = <<2>>
    /\ LET pre == existing[1]
           post == readIssues(issuesFile).recs
       IN  /\ IssueOf(pre, 3).blockedBy = <<1, 2>>
           /\ IssueOf(pre, 1).closedAt # NoTime
           /\ IssueOf(pre, 2).status # "closed"
           /\ 3 \in {i.id : i \in Range(blocked(pre))}
           /\ 3 \notin ReadyIds(pre)
           /\ 3 \in ReadyIds(post)

\* What a successful dep add of (x, d) must have made of collection pre:
\* d in x's blockedBy, x in d's blocks, updatedAt of both set to t, every
\* other issue as it was.
DepAdded(pre, post, x, d, t) ==
    /\ IdsOf(post) = IdsOf(pre) /\ Len(post) = Len(pre)
    /\ d \in Range(OrEmpty(IssueOf(post, x).blockedBy))
    /\ x \in Range(OrEmpty(IssueOf(post, d).blocks))
    /\ IssueOf(post, x).updatedAt = t
    /\ IssueOf(post, d).updatedAt = t
    /\ \A k \in 1..Len(pre) : pre[k].id \notin {x, d} => post[k] = pre[k]

\* C14 (dep add records both sides): at the step a dep add of (issue,
\* dependsOn) rewrites the store, the two ids distinct or not, dependsOn is
\* in blockedBy of issue, issue is in blocks of dependsOn, updatedAt of both
\* is the time of the command, and no other issue has changed.
C14_DepAddBothSides ==
    [][Rewrites("depadd") =>
        DepAdded(readIssues(issuesFile).recs, readIssues(issuesFile').recs,
                 cmd[1].ids[1], cmd[1].ids[2], BlockTime)]_vars

\* C14 for two different issues, where the code does what the claim says.
C14_DistinctPairs ==
    [][(Rewrites("depadd") /\ cmd[1].ids[1] # cmd[1].ids[2]) =>
        DepAdded(readIssues(issuesFile).recs, readIssues(issuesFile').recs,
                 cmd[1].ids[1], cmd[1].ids[2], BlockTime)]_vars

\* C14: sd dep add 3 3 has been written on a store where 3 had no
\* dependency; 3 is in its own blocks list and not in its blockedBy.
C14_Witness ==
    /\ Rewrote("depadd") /\ cmd[1].ids = <<3, 3>>
    /\ OrEmpty(IssueOf(existing[1], 3).blockedBy) = <<>>
    /\ LET post == readIssues(issuesFile).recs
       IN  /\ IssueOf(post, 3).blocks = <<3>>
           /\ OrEmpty(IssueOf(post, 3).blockedBy) = <<>>

\* No id occurs twice in list l.
NoDup(l) == Cardinality(Range(l)) = Len(l)

\* Collections a and b hold the same blockedBy and blocks lists.
SameLists(a, b) ==
    /\ Len(a) = Len(b)
    /\ \A k \in 1..Len(a) :
           /\ OrEmpty(a[k].blockedBy) = OrEmpty(b[k].blockedBy)
           /\ OrEmpty(a[k].blocks) = OrEmpty(b[k].blocks)

\* C15 (dep add is idempotent): at the step a dep add of (issue, dependsOn)
\* rewrites the store, the blockedBy list of issue and the blocks list of
\* dependsOn hold no id twice; adding the same edge to the result once more
\* leaves every list as it is; and when the edge was there already on both
\* sides the step itself leaves every list as it was.
C15_DepAddIdempotent ==
    [][Rewrites("depadd") =>
        LET pre == readIssues(issuesFile).recs
            post == readIssues(issuesFile').recs
            x == cmd[1].ids[1]
            d == cmd[1].ids[2]
        IN  /\ NoDup(OrEmpty(IssueOf(post, x).blockedBy))
            /\ NoDup(OrEmpty(IssueOf(post, d).blocks))
            /\ SameLists(DepBlock(post, "add", x, d, now).issues, post)
            /\ (/\ d \in Range(OrEmpty(IssueOf(pre, x).blockedBy))
                /\ x \in Range(OrEmpty(IssueOf(pre, d).blocks)))
               => SameLists(post, pre)]_vars

\* C15: sd dep add 3 1 has been run twice on a store where 3 depended on 2;
\* the second run has written the lists the first had left.
C15_Witness ==
    /\ Rewrote("depadd") /\ cmd[1].ids = <<3, 1>>
    /\ [op |-> "depadd", res |-> "ok", ids |-> {1, 3}] \in out
    /\ LET post == readIssues(issuesFile).recs
       IN  /\ IssueOf(existing[1], 3).blockedBy = <<2, 1>>
           /\ IssueOf(post, 3).blockedBy = <<2, 1>>
           /\ 3 \in Range(IssueOf(post, 1).blocks)
           /\ SameLists(post, existing[1])

\* The running command is a close, dep add, dep remove or update that names
\* an id of no issue of the store.
NamesMissingId ==
    /\ cmd[1].op \in {"close", "depadd", "deprm", "update"}
    /\ \E k \in 1..Len(cmd[1].ids) :
           cmd[1].ids[k] \notin IdsOf(readIssues(issuesFile).recs)

\* C16 (not found has no partial effect): no step of a close, dep add, dep
\* remove or update that names an id of no issue changes issues.jsonl or
\* leaves a temp file, whatever other ids it names, and the command ends
\* with the not-found error.
C16_NotFoundNoEffect ==
    [][NamesMissingId =>
        /\ issuesFile' = issuesFile
        /\ tmp' = {}
        /\ cmd'[1] = NoCmd =>
               out' = out \cup {[op |-> cmd[1].op, res |-> "notfound",
                                 ids |-> {}]}]_vars

\* C16: sd close 1 4 has thrown on the missing id 4 and issue 1, which it
\* had found first, is still open in the store, which is as it was read.
C16_Witness ==
    /\ cmd[1].op = "close" /\ cmd[1].ids = <<1, 4>>
    /\ pc[1] = "wl_release" /\ err[1] = "notfound"
    /\ issuesFile = existing[1]
    /\ 1 \in IdsOf(issuesFile)
    /\ IssueOf(issuesFile, 1).status = "open"

\* What a dep remove of (x, d) must have made of collection pre: d gone
\* from x's blockedBy, x gone from d's blocks, the other entries of the two
\* lists kept, every other issue as it was.
DepRemoved(pre, post, x, d) ==
    /\ Len(post) = Len(pre)
    /\ d \notin Range(OrEmpty(IssueOf(post, x).blockedBy))
    /\ x \notin Range(OrEmpty(IssueOf(post, d).blocks))
    /\ Range(OrEmpty(IssueOf(post, x).blockedBy))
          = Range(OrEmpty(IssueOf(pre, x).blockedBy)) \ {d}
    /\ Range(OrEmpty(IssueOf(post, d).blocks))
          = Range(OrEmpty(IssueOf(pre, d).blocks)) \ {x}
    /\ \A k \in 1..Len(pre) : pre[k].id \notin {x, d} => post[k] = pre[k]

\* C17 (dep remove): at the step a dep remove of (issue, dependsOn)
\* rewrites the store, dependsOn is in blockedBy of issue no more and issue
\* is in blocks of dependsOn no more, an entry that was absent leaving its
\* side as it was; removing the edge from the result once more changes no
\* list.
C17_DepRemoveBothSides ==
    [][Rewrites("deprm") =>
        LET pre == readIssues(issuesFile).recs
            post == readIssues(issuesFile').recs
            x == cmd[1].ids[1]
            d == cmd[1].ids[2]
        IN  /\ DepRemoved(pre, post, x, d)
            /\ SameLists(DepBlock(post, "remove", x, d, now).issues, post)]_vars

\* C17 for two different issues, where the code does what the claim says;
\* and at a dep add of two different issues that were not linked on either
\* side, removing the edge from the result gives back the lists there were.
C17_DistinctPairs ==
    [][/\ (Rewrites("deprm") /\ cmd[1].ids[1] # cmd[1].ids[2]) =>
            LET pre == readIssues(issuesFile).recs
                post == readIssues(issuesFile').recs
                x == cmd[1].ids[1]
                d == cmd[1].ids[2]
            IN  /\ DepRemoved(pre, post, x, d)
                /\ SameLists(DepBlock(post, "remove", x, d, now).issues,
                             post)
       /\ (Rewrites("depadd") /\ cmd[1].ids[1] # cmd[1].ids[2]) =>
            LET pre == readIssues(issuesFile).recs
                post == readIssues(issuesFile').recs
                x == cmd[1].ids[1]
                d == cmd[1].ids[2]
            IN  (/\ d \notin Range(OrEmpty(IssueOf(pre, x).blockedBy))
                 /\ x \notin Range(OrEmpty(IssueOf(pre, d).blocks)))
                => SameLists(DepBlock(post, "remove", x, d, now).issues,
                             pre)]_vars

\* C17: sd dep remove 3 3 has been written on a store where 3 was in its
\* own blockedBy and blocks lists; 3 is still in its blockedBy.
C17_Witness ==
    /\ Rewrote("deprm") /\ cmd[1].ids = <<3, 3>>
    /\ IssueOf(existing[1], 3).blockedBy = <<3>>
    /\ IssueOf(existing[1], 3).blocks = <<3>>
    /\ LET post == readIssues(issuesFile).recs
       IN  /\ IssueOf(post, 3).blockedBy = <<3>>
           /\ OrEmpty(IssueOf(post, 3).blocks) = <<>>

\* Title `title` with every "{prefix}" in it replaced by the text P.
WithPrefix(title, P) ==
    Flatten([i \in 1..Len(title) |->
                IF title[i] = "{prefix}" THEN P ELSE <<title[i]>>])

\* The template the running tpl pour instantiates.
PouredTemplate ==
    FindTemplate(readTemplates(templatesFile).recs, cmd[1].tpl)[1]

\* Collection post is collection pre followed by one new issue per step of
\* template tpl, in step order, chained: step i blockedBy exactly step i-1,
\* step i-1 blocks step i, the first step with no blockedBy, each of convoy
\* tpl.id.
Chained(pre, post, tpl) ==
    LET k == Len(tpl.steps)
        n == Len(pre)
    IN  /\ Len(post) = n + k
        /\ SubSeq(post, 1, n) = pre
        /\ \A i \in 1..k :
               /\ post[n + i].id \notin IdsOf(pre)
               /\ \A j \in 1..k : post[n + j].id = post[n + i].id => j = i
               /\ post[n + i].status = "open"
               /\ post[n + i].convoy = tpl.id
               /\ OrEmpty(post[n + i].blockedBy) =
                      (IF i = 1 THEN <<>> ELSE <<post[n + i - 1].id>>)
               /\ OrEmpty(post[n + i].blocks) =
                      (IF i = k THEN <<>> ELSE <<post[n + i + 1].id>>)

\* C18 (convoy chain): at the step a tpl pour of a template with k steps
\* and prefix P rewrites the store, the store has k new issues in step
\* order, step i blockedBy exactly step i-1 and step i-1 blocking step i,
\* the first step with no blockedBy, each with the template id as convoy,
\* and each with the title of its step in which every {prefix} is replaced
\* by P.
C18_ConvoyChain ==
    [][Rewrites("pour") =>
        LET pre == readIssues(issuesFile).recs
            post == readIssues(issuesFile').recs
            tpl == PouredTemplate
        IN  /\ Chained(pre, post, tpl)
            /\ \A i \in 1..Len(tpl.steps) :
                   post[Len(pre) + i].title =
                       WithPrefix(tpl.steps[i].title, cmd[1].prefix)]_vars

\* C18 without the titles, and with them for a prefix that has neither "$$"
\* nor "$&" in it: there the code does what the claim says.
C18_ChainStructure ==
    [][Rewrites("pour") =>
        LET pre == readIssues(issuesFile).recs
            post == readIssues(issuesFile').recs
            tpl == PouredTemplate
        IN  /\ Chained(pre, post, tpl)
            /\ Range(cmd[1].prefix) \cap {"$$", "$&"} = {} =>
                   \A i \in 1..Len(tpl.steps) :
                       post[Len(pre) + i].title =
                           WithPrefix(tpl.steps[i].title, cmd[1].prefix)]_vars

\* C18: sd tpl pour with --prefix 'Q$&' has been written; the title of the
\* first issue still holds the placeholder {prefix}.
C18_Witness ==
    /\ Rewrote("pour") /\ cmd[1].prefix = <<"Q", "$&">>
    /\ Len(issuesFile) = StepsOfTpl1 + 1
    /\ issuesFile[1].title = <<"Q", "{prefix}", ": step">>
    /\ issuesFile[1].convoy = 1
    /\ issuesFile[3].blockedBy = <<issuesFile[2].id>>

\* The ids sd blocked lists on collection coll.
BlockedIds(coll) == {i.id : i \in Range(blocked(coll))}

\* The issues of convoy 1 in collection coll, in the order of the file,
\* which is the order of the steps.
StepsIn(coll) == SelectSeq(coll, LAMBDA i : i.convoy = 1)

\* The issues `steps` depend on each other as tpl pour has wired them.
AsPoured(steps) ==
    LET wired == PourIssues([i \in 1..Len(steps) |-> steps[i].id],
                            Template(1, Len(steps)), <<>>, 0)
    IN  \A i \in 1..Len(steps) :
            /\ OrEmpty(steps[i].blockedBy) = OrEmpty(wired[i].blockedBy)
            /\ OrEmpty(steps[i].blocks) = OrEmpty(wired[i].blocks)

\* C19 (a convoy advances one step at a time): at the step a tpl pour
\* rewrites the store, sd ready lists the first of the new issues and none
\* of the others, and sd blocked lists all the others and not the first;
\* at the step a close of step i of a convoy that is wired as poured and
\* whose later steps are open rewrites the store, sd ready lists step i+1 and no later step, and the
\* later steps are listed by sd blocked.
C19_OneStepAtATime ==
    [][/\ Rewrites("pour") =>
            LET pre == readIssues(issuesFile).recs
                post == readIssues(issuesFile').recs
                new == SubSeq(post, Len(pre) + 1, Len(post))
            IN  /\ Len(new) = Len(PouredTemplate.steps)
                /\ ReadyIds(post) \cap IdsOf(new) = {new[1].id}
                /\ BlockedIds(post) \cap IdsOf(new)
                      = IdsOf(new) \ {new[1].id}
       /\ (Rewrites("close") /\ Len(cmd[1].ids) = 1) =>
            LET pre == readIssues(issuesFile).recs
                post == readIssues(issuesFile').recs
                steps == StepsIn(pre)
            IN  \A i \in 1..Len(steps) :
                    (/\ steps[i].id = cmd[1].ids[1]
                     /\ AsPoured(steps)
                     /\ \A j \in (i + 1)..Len(steps) :
                            steps[j].status = "open")
                    => \A j \in (i + 1)..Len(steps) :
                           IF j = i + 1
                           THEN steps[j].id \in ReadyIds(post)
                           ELSE /\ steps[j].id \notin ReadyIds(post)
                                /\ steps[j].id \in BlockedIds(post)]_vars

\* C19: a convoy of three steps has been poured and its first step has now
\* been closed; the second step is ready and the third is blocked.
C19_Witness ==
    /\ Rewrote("close")
    /\ [op |-> "pour", res |-> "ok", ids |-> IdSpace] \in out
    /\ LET post == readIssues(issuesFile).recs
       IN  /\ Len(post) = StepsOfTpl1 + 1
           /\ cmd[1].ids = <<post[1].id>>
           /\ ReadyIds(existing[1]) = {post[1].id}
           /\ ReadyIds(post) = {post[2].id}
           /\ BlockedIds(post) = {post[3].id}

\* Process p takes a step that writes issues.jsonl: the rename of
\* atomicWrite, the writes of appendIssue, the writeFileSync of a fix.
WritesIssues(p) ==
    /\ pc[p] \in {"wr_rename", "ap_write", "ap_finish", "fix_write",
                 "fix_finish"}
    /\ pc'[p] # pc[p]

\* Process p holds the lock of issues.jsonl: it is inside the section and
\* the sentinel is the one it created.
HoldsLock(p) == InCS(p) /\ lock # NoLock /\ lock.by = p

\* C20 (every write under the lock): whenever a process writes
\* issues.jsonl, by a store function or by a fix of sd doctor --fix, it
\* holds the lock of the file.
C20_WritesHoldLock ==
    [][\A p \in Procs : WritesIssues(p) => HoldsLock(p)]_vars

\* C20 for the store functions alone, which write between their
\* acquireLock and their releaseLock.
C20_StoreWritesHoldLock ==
    [][\A p \in Procs :
          (WritesIssues(p) /\ pc[p] \notin {"fix_write", "fix_finish"})
             => HoldsLock(p)]_vars

\* C20: sd close 1 and sd doctor --fix have both reported success and
\* ended, and issue 1 is not closed: the fix has written over the close
\* what it had read before it.
C20_Witness ==
    /\ Quiescent
    /\ [op |-> "close", res |-> "ok", ids |-> {1}] \in out
    /\ [op |-> "doctor", res |-> "ok", ids |-> {}] \in out
    /\ \E k \in 1..Len(issuesFile) :
           /\ issuesFile[k].id = 1
           /\ issuesFile[k].status = "open"
           /\ issuesFile[k].closedAt = NoTime

\* C21 (a repair is all or nothing): every step sd doctor --fix takes while
\* it writes a repair, its being killed included, leaves issues.jsonl as
\* it was or holding the whole repaired collection; it is never left
\* partially rewritten.
C21_RepairAllOrNothing ==
    [][pc[2] \in {"fix_write", "fix_finish"} =>
          issuesFile' \in {issuesFile, buf[2]}]_vars

\* C21: sd doctor --fix was killed inside the writeFileSync of a repair,
\* and issues.jsonl ends in the beginning of a line.
C21_Witness ==
    /\ crashes = 1
    /\ pc[2] = "idle"
    /\ Len(issuesFile) > 0
    /\ issuesFile[Len(issuesFile)] = BadLine

\* The edges of the graph of collection coll: a is blocked by b.
BlockedByEdge(coll, a, b) ==
    /\ a \in IdsOf(coll)
    /\ b \in Range(OrEmpty(IssueOf(coll, a).blockedBy))

\* c is a cycle of the graph: each id is blocked by the next one and the
\* last id is the first.
IsCycle(coll, c) ==
    /\ Len(c) >= 2
    /\ c[1] = c[Len(c)]
    /\ \A i \in 1..(Len(c) - 1) : BlockedByEdge(coll, c[i], c[i + 1])

\* The graph has a directed cycle: some closed walk of at most as many
\* edges as there are issues.
HasCycle(coll) ==
    \E k \in 2..(Len(coll) + 1) :
        \E c \in [1..k -> IdsOf(coll)] : IsCycle(coll, c)

\* C22 (cycle check): the circular-dependencies check reports a cycle
\* exactly when the graph of the blockedBy lists has a directed cycle, a
\* self-reference included, and every sequence it reports is a cycle: each
\* id blocked by the next, the last id the first.
C22_CycleCheck ==
    (result.op = "cycles" /\ result.ok) =>
        LET coll == readIssues(issuesFile).recs
        IN  /\ Len(result.recs) > 0 <=> HasCycle(coll)
            /\ \A i \in 1..Len(result.recs) : IsCycle(coll, result.recs[i])

\* C22: on a store where 1 is blocked by 2, 2 by 3 and an id of no issue,
\* and 3 by itself and by 2, the check has reported the cycle through 2
\* and 3 and the self-reference of 3.
C22_Witness ==
    /\ result.op = "cycles" /\ result.ok
    /\ issuesFile[1].blockedBy = <<2>>
    /\ issuesFile[2].blockedBy = <<MaxId + 1, 3>>
    /\ issuesFile[3].blockedBy = <<3, 2>>
    /\ <<3, 3>> \in Range(result.recs)
    /\ <<2, 3, 2>> \in Range(result.recs)

\* A run of sd doctor --fix ends: it has found nothing to fix, or applyFixes
\* has gone through its checks.  A run that readIssues ends with an error
\* repairs nothing and is not one of these.
DoctorFixEnds ==
    /\ pc'[2] = "idle"
    /\ crashes' = crashes
    /\ pc[2] # "idle" \/ opsStarted' # opsStarted
    /\ readIssues(issuesFile').ok

\* No blockedBy or blocks list of the collection holds the id of no issue.
NoDangling(coll) ==
    \A k \in 1..Len(coll) :
        Range(OrEmpty(coll[k].blockedBy)) \cup Range(OrEmpty(coll[k].blocks))
            \subseteq IdsOf(coll)

\* sd doctor --fix has computed the referential repair of the file it read.
RepairsRefs ==
    /\ pc[2] = "fix_read"
    /\ Head(cmd[2].checks) = "referential-integrity"
    /\ pc'[2] = "fix_write"

\* C23: when a run of sd doctor --fix ends, no blockedBy or blocks list of
\* the store holds an id that is absent from the collection; and the
\* referential repair writes the collection it read with, in every list,
\* the ids of existing issues in their order and nothing else, a list left
\* with no id being absent rather than empty, and every other field as it
\* was.
C23_ReferentialRepair ==
    [][/\ DoctorFixEnds => NoDangling(readIssues(issuesFile').recs)
       /\ RepairsRefs =>
              LET pre == ParsedIssues(issuesFile)
                  post == buf'[2]
                  Kept(l) == SelectSeq(OrEmpty(l),
                                       LAMBDA ref : ref \in IdsOf(pre))
              IN  /\ Len(post) = Len(pre)
                  /\ \A k \in 1..Len(pre) :
                        /\ post[k].blockedBy # <<>>
                        /\ post[k].blocks # <<>>
                        /\ OrEmpty(post[k].blockedBy) = Kept(pre[k].blockedBy)
                        /\ OrEmpty(post[k].blocks) = Kept(pre[k].blocks)
                        /\ [post[k] EXCEPT !.blockedBy = Absent,
                                           !.blocks = Absent]
                           = [pre[k] EXCEPT !.blockedBy = Absent,
                                            !.blocks = Absent]]_vars

\* The repair of a store whose lists hold the id of no issue alone, before
\* the id of an issue and after one is about to be written.
C23_Witness ==
    /\ pc[2] = "fix_write"
    /\ Head(cmd[2].checks) = "referential-integrity"
    /\ issuesFile = <<DoctorIssue(1, <<4>>, <<3, 4>>),
                      DoctorIssue(3, <<4, 1>>, <<4>>)>>
    /\ buf[2] = <<DoctorIssue(1, Absent, <<3>>),
                  DoctorIssue(3, <<1>>, Absent)>>

\* Between the issues of the collection, B is in A.blockedBy exactly when A
\* is in B.blocks.
Symmetric(coll) ==
    \A a \in 1..Len(coll), b \in 1..Len(coll) :
        coll[b].id \in Range(OrEmpty(coll[a].blockedBy))
            <=> coll[a].id \in Range(OrEmpty(coll[b].blocks))

\* l with ids appended to it.
Extends(post, l) ==
    /\ Len(OrEmpty(post)) >= Len(OrEmpty(l))
    /\ SubSeq(OrEmpty(post), 1, Len(OrEmpty(l))) = OrEmpty(l)

\* sd doctor --fix has computed the bidirectional repair of the file it
\* read.
RepairsLinks ==
    /\ pc[2] = "fix_read"
    /\ Head(cmd[2].checks) = "bidirectional-consistency"
    /\ pc'[2] = "fix_write"

\* C24: when a run of sd doctor --fix ends, for all issues A and B of the
\* store B is in A.blockedBy exactly when A is in B.blocks; and the
\* bidirectional repair writes the collection it read with ids appended to
\* its lists, each the missing side of a link the collection had, and
\* nothing removed or otherwise changed.
C24_BidirectionalRepair ==
    [][/\ DoctorFixEnds => Symmetric(readIssues(issuesFile').recs)
       /\ RepairsLinks =>
              LET pre == ParsedIssues(issuesFile)
                  post == buf'[2]
              IN  /\ Len(post) = Len(pre)
                  /\ \A k \in 1..Len(pre) :
                        /\ Extends(post[k].blockedBy, pre[k].blockedBy)
                        /\ Extends(post[k].blocks, pre[k].blocks)
                        /\ \A x \in Range(OrEmpty(post[k].blockedBy))
                                     \ Range(OrEmpty(pre[k].blockedBy)) :
                               /\ x \in IdsOf(pre)
                               /\ pre[k].id \in
                                     Range(OrEmpty(IssueOf(pre, x).blocks))
                        /\ \A x \in Range(OrEmpty(post[k].blocks))
                                     \ Range(OrEmpty(pre[k].blocks)) :
                               /\ x \in IdsOf(pre)
                               /\ pre[k].id \in
                                     Range(OrEmpty(IssueOf(pre, x).blockedBy))
                        /\ [post[k] EXCEPT !.blockedBy = Absent,
                                           !.blocks = Absent]
                           = [pre[k] EXCEPT !.blockedBy = Absent,
                                            !.blocks = Absent]]_vars

\* The repair of a store with a link recorded in blocks only and a link
\* recorded in blockedBy only is about to be written.
C24_Witness ==
    /\ pc[2] = "fix_write"
    /\ Head(cmd[2].checks) = "bidirectional-consistency"
    /\ issuesFile = <<DoctorIssue(1, Absent, <<3>>),
                      DoctorIssue(2, <<1>>, Absent),
                      DoctorIssue(3, Absent, Absent)>>
    /\ buf[2] = <<DoctorIssue(1, Absent, <<3, 2>>),
                  DoctorIssue(2, <<1>>, Absent),
                  DoctorIssue(3, <<1>>, Absent)>>

\* The lines of the log that carry id y.
LinesOf(lines, y) ==
    {i \in 1..Len(lines) : lines[i].kind = "issue" /\ lines[i].id = y}

\* The ids that the lines of the log carry.
LineIds(lines) ==
    {lines[i].id : i \in {j \in 1..Len(lines) : lines[j].kind = "issue"}}

Max(S) == CHOOSE x \in S : \A y \in S : y <= x

\* sd doctor --fix has computed the duplicate repair of the file it read.
RepairsDuplicates ==
    /\ pc[2] = "fix_read"
    /\ Head(cmd[2].checks) = "duplicate-ids"
    /\ pc'[2] = "fix_write"

\* C25: the duplicate-id check flags the ids that more than one line of the
\* log carries and no other, and a run of sd doctor --fix goes to the
\* duplicate repair exactly when there is one; the duplicate repair writes
\* one line per id of the log, the record of the last line that carries the
\* id, and readIssues of what it writes is readIssues of what it read; when
\* a run of sd doctor --fix ends every id of the log is on one line.
C25_DuplicateRepair ==
    [][/\ checkDuplicateIds(issuesFile)
            = {y \in LineIds(issuesFile) :
                   Cardinality(LinesOf(issuesFile, y)) > 1}
       /\ (pc[2] = "idle" /\ pc'[2] = "fix_read") =>
              (Head(cmd'[2].checks) = "duplicate-ids"
                   <=> \E y \in LineIds(issuesFile) :
                           Cardinality(LinesOf(issuesFile, y)) > 1)
       /\ RepairsDuplicates =>
              LET post == buf'[2]
              IN  /\ LineIds(post) = LineIds(issuesFile)
                  /\ \A k \in 1..Len(post) : post[k].kind = "issue"
                  /\ \A y \in LineIds(issuesFile) :
                        /\ Cardinality(LinesOf(post, y)) = 1
                        /\ IssueOf(post, y)
                              = issuesFile[Max(LinesOf(issuesFile, y))]
                  /\ readIssues(post) = readIssues(issuesFile)
       /\ DoctorFixEnds =>
              \A y \in LineIds(issuesFile') :
                  Cardinality(LinesOf(issuesFile', y)) = 1]_vars

\* The repair of a log that carries id 1 on its first and third lines,
\* with different records, is about to be written: the third line's record
\* in the first line's place.
C25_Witness ==
    /\ pc[2] = "fix_write"
    /\ Head(cmd[2].checks) = "duplicate-ids"
    /\ issuesFile = <<DoctorIssue(1, <<2>>, Absent),
                      DoctorIssue(2, Absent, <<1>>),
                      DoctorIssue(1, Absent, Absent)>>
    /\ buf[2] = <<DoctorIssue(1, Absent, Absent),
                  DoctorIssue(2, Absent, <<1>>)>>

\* C26: closedAt is set once, on the transition into closed: a close
\* command gives the issues it closes that were not closed the time of the
\* close as closedAt, and no step of any command changes the closedAt of an
\* issue that is closed, a close of it included.
C26_ClosedAtSetOnce ==
    [][(readIssues(issuesFile).ok /\ readIssues(issuesFile').ok) =>
        LET pre == readIssues(issuesFile).recs
            post == readIssues(issuesFile').recs
        IN  /\ Rewrites("close") =>
                  \A y \in Range(cmd[1].ids) :
                      IssueOf(pre, y).status # "closed"
                          => IssueOf(post, y).closedAt = BlockTime
            /\ \A y \in IdsOf(pre) \cap IdsOf(post) :
                  IssueOf(pre, y).status = "closed"
                      => IssueOf(post, y).closedAt = IssueOf(pre, y).closedAt
       ]_vars

\* C26: a close of issue 1, which a first close had closed, has replaced its
\* closedAt by a later time.
C26_Witness ==
    /\ Rewrote("close") /\ cmd[1].ids = <<1>>
    /\ opsStarted = 2
    /\ 1 \in IdsOf(existing[1])
    /\ IssueOf(existing[1], 1).status = "closed"
    /\ IssueOf(existing[1], 1).closedAt # NoTime
    /\ IssueOf(readIssues(issuesFile).recs, 1).closedAt
           > IssueOf(existing[1], 1).closedAt

\* Process p completes a write of issues.jsonl.
CompletesWrite(p) ==
    \/ pc[p] = "wr_rename" /\ pc'[p] = "st_release"
    \/ pc[p] = "ap_finish" /\ pc'[p] = "st_release"

\* C27: issue ids are unique and immutable: whatever the interleaving of
\* create and tpl pour commands of different processes, no two lines of
\* issues.jsonl carry the same id; and a command that writes the store
\* writes every record it had read under the id it had.
C27_UniqueImmutableIds ==
    [][/\ \A y \in LineIds(issuesFile') :
              Cardinality(LinesOf(issuesFile', y)) = 1
       /\ \A p \in Procs :
              CompletesWrite(p) =>
                  /\ Len(issuesFile') >= Len(existing[p])
                  /\ \A k \in 1..Len(existing[p]) :
                         existing[p][k].kind = "issue" =>
                             /\ issuesFile'[k].kind = "issue"
                             /\ issuesFile'[k].id = existing[p][k].id]_vars

\* C27: a create and a tpl pour of two processes have both ended and two
\* lines of issues.jsonl carry the same id.
C27_Witness ==
    /\ \A p \in Procs : pc[p] = "idle"
    /\ \E y \in LineIds(issuesFile) : Cardinality(LinesOf(issuesFile, y)) > 1
    /\ \E m \in out : m.op = "create" /\ m.res = "ok"
    /\ \E m \in out : m.op = "pour" /\ m.res = "ok"

\* The sentinel of the file the command of process p works on.
OwnSentinel(p) == IF cmd[p].op \in TplOps THEN tplLock ELSE lock

\* Process p is in acquireLock.
Acquiring(p) == pc[p] \in {"open", "stat", "unlink", "sleep"}

\* C28: the two logs have two sentinels.  A process in acquireLock finds
\* EEXIST only when the sentinel of its own file exists, whatever the state
\* of the other sentinel, and no step of a command creates, ages or removes
\* the sentinel of the other file; no process has created both sentinels
\* that exist; and never do two processes each wait for the sentinel the
\* other has created.
C28_TwoLocks ==
    [][/\ \A p \in Procs :
              /\ (pc[p] \in {"open", "sleep"} /\ pc'[p] = "stat")
                     => OwnSentinel(p) # NoLock
              /\ (pc[p] \in {"open", "sleep"} /\ pc'[p] # pc[p]
                      /\ OwnSentinel(p) = NoLock)
                     => pc'[p] \notin {"stat", "sleep", "idle"}
              /\ (pc[p] # "idle" /\ pc'[p] # pc[p])
                     => IF cmd[p].op \in TplOps THEN lock' = lock
                        ELSE tplLock' = tplLock
              /\ ~(lock # NoLock /\ tplLock # NoLock
                       /\ lock.by = p /\ tplLock.by = p)
       /\ ~\E p \in Procs, q \in Procs :
              /\ p # q
              /\ Acquiring(p) /\ Acquiring(q)
              /\ OwnSentinel(p) # NoLock /\ OwnSentinel(p).by = q
              /\ OwnSentinel(q) # NoLock /\ OwnSentinel(q).by = p
              /\ (cmd[p].op \in TplOps) # (cmd[q].op \in TplOps)]_vars

\* C28: a tpl pour holds the sentinel of issues.jsonl and a tpl step add,
\* started while it did, holds the sentinel of templates.jsonl; both are in
\* their blocks and no time has passed.
C28_Witness ==
    /\ cmd[1].op = "pour" /\ cmd[2].op = "tplstep"
    /\ pc[1] = "blk_read" /\ pc[2] = "blk_read"
    /\ lock # NoLock /\ lock.by = 1
    /\ tplLock # NoLock /\ tplLock.by = 2
    /\ now = 0

\* The ancestors of directory d, d included, that have a data directory.
InitialisedAbove(d) == {a \in fs.seeds : Under(d, a)}

\* The nearest of them.
Nearest(d) ==
    CHOOSE a \in InitialisedAbove(d) :
        \A b \in InitialisedAbove(d) : Len(b) <= Len(a)

\* Directory d is in the secondary working tree.
InSecondaryTree(d) == fs.git = "worktree" /\ Under(d, <<"w">>)

\* C29 (root resolution): from any directory the resolver returns the data
\* directory of the nearest ancestor that has one and fails when there is
\* none up to the root; when that ancestor is in a secondary working tree
\* and the main checkout has a data directory it returns the main
\* checkout's, and the ancestor's own otherwise.
C29_RootResolution ==
    result.op = "find" =>
        IF InitialisedAbove(result.start) = {} THEN ~result.ok
        ELSE /\ result.ok
             /\ result.dir =
                    IF InSecondaryTree(Nearest(result.start))
                       /\ <<"m">> \in fs.seeds
                    THEN <<"m", SEEDS_DIR_NAME>>
                    ELSE join(Nearest(result.start), SEEDS_DIR_NAME)

\* C29: m is a checkout with no other working tree, m and its directory
\* m/s both have a data directory, and from m/s the resolver has returned
\* the data directory of m.
C29_Witness ==
    /\ result.op = "find" /\ result.start = <<"m", "s">>
    /\ fs.git = "main"
    /\ fs.seeds = {<<"m">>, <<"m", "s">>}
    /\ result.ok /\ result.dir = <<"m", SEEDS_DIR_NAME>>

\* acquireLock of process p throws its timeout.
TimesOut(p) ==
    /\ pc[p] = "stat"
    /\ pc'[p] \in {"wl_release", "idle"}
    /\ crashes' = crashes

\* C30 (lock timings): a waiter removes a sentinel only when it is older
\* than 30 s; it sleeps at least 100 ms between two attempts; and it fails
\* only when it has been retrying for 30 s.
C30_LockTimings ==
    [][\A p \in Procs :
          /\ (pc[p] = "stat" /\ pc'[p] = "unlink")
                 => now - OwnSentinel(p).mtime > 30000
          /\ (pc[p] = "stat" /\ pc'[p] = "sleep")
                 => wakeAt'[p] - now >= 100
          /\ TimesOut(p)
                 => now - (deadline[p] - LOCK_TIMEOUT_MS) >= 30000]_vars

\* C30: a command has failed with the lock timeout 5 s after it started,
\* while the sentinel it was waiting for was 5 s old.
C30_Witness ==
    /\ now = 5000
    /\ \E m \in out : m.res = "timeout"
    /\ lock # NoLock /\ lock.mtime = 0

\* C31 (stale sentinels): a waiter whose statSync finds a sentinel older
\* than the staleness threshold goes on to delete it, and from the delete
\* straight to the next attempt, with no sleep; and the sentinel a waiter
\* deletes is older than the threshold.
C31_StaleRemoval ==
    [][\A p \in Procs :
          /\ (pc[p] = "stat" /\ pc'[p] # "stat" /\ crashes' = crashes
                  /\ OwnSentinel(p) # NoLock
                  /\ now - OwnSentinel(p).mtime > LOCK_STALE_MS)
                 => pc'[p] = "unlink"
          /\ (pc[p] = "unlink" /\ pc'[p] # "unlink" /\ crashes' = crashes)
                 => /\ pc'[p] = "open"
                    /\ wakeAt'[p] = 0
                    /\ OwnSentinel(p) # NoLock
                           => now - OwnSentinel(p).mtime > LOCK_STALE_MS]_vars

\* C31: a waiter that has found a stale sentinel is about to delete, by its
\* path, the sentinel another process has created since, at the current
\* clock reading.
C31_Witness ==
    \E p \in Procs :
        /\ pc[p] = "unlink"
        /\ lock # NoLock /\ lock.by # p
        /\ lock.mtime = now
        /\ InCS(lock.by)

\* C32 (no self-contention): with one process running its commands one
\* after the other, no command fails with the lock timeout, and no process
\* is in acquireLock for a sentinel that it has created itself and not yet
\* released.
C32_NoSelfAcquire ==
    /\ \A m \in out : m.res # "timeout"
    /\ \A p \in Procs :
           ~(/\ Acquiring(p)
             /\ OwnSentinel(p) # NoLock
             /\ OwnSentinel(p).by = p)

\* C32: the only command run, alone, has failed with the lock timeout, the
\* time of one acquisition timeout after it started.
C32_Witness ==
    /\ opsStarted = 1
    /\ \A p \in Procs : pc[p] = "idle"
    /\ \E m \in out : m.res = "timeout"
    /\ now = 1 + LOCK_TIMEOUT_MS

\* Process p runs a releaseLock.
Releases(p) ==
    /\ pc[p] \in {"st_release", "wl_release"}
    /\ pc'[p] # pc[p]
    /\ crashes' = crashes

\* C33 (release deletes one's own sentinel only): the sentinel a
\* releaseLock of process p deletes is one that p has created.
C33_ReleaseOwnSentinel ==
    [][\A p \in Procs :
          (Releases(p) /\ OwnSentinel(p) # NoLock)
              => OwnSentinel(p).by = p]_vars

\* C33: process p is at the releaseLock of its store function; the
\* sentinel it created was removed as stale, and the sentinel now there is
\* the one of another process, which is in its section.
C33_Witness ==
    \E p \in Procs :
        /\ pc[p] = "st_release"
        /\ lock # NoLock /\ lock.by # p
        /\ InCS(lock.by)
        /\ pc[lock.by] = "blk_read"

\* C34 (the dependency graph stays intact from the empty store): in every
\* state between commands reached from the empty store through create, update, close, dep
\* add, dep remove and pour commands, each id in a blockedBy or blocks list
\* is the id of an issue of the store, and B is in A.blockedBy exactly when
\* A is in B.blocks, for all A and B, A = B included.
C34_GraphIntact ==
    LET r == readIssues(issuesFile)
    IN  (Quiescent /\ r.ok) => (NoDangling(r.recs) /\ Symmetric(r.recs))

\* A dep add of an issue on itself has rewritten the store.
C34_Witness ==
    /\ Rewrote("depadd")
    /\ cmd[1].ids[1] = cmd[1].ids[2]
    /\ readIssues(issuesFile).ok
    /\ cmd[1].ids[1] \in IdsOf(readIssues(issuesFile).recs)

\* C35 (acquire terminates): under fair scheduling a process that is in
\* acquireLock eventually leaves it, holding the lock or with the timeout
\* error, even while another process keeps creating and removing the
\* sentinel.
C35_AcquireTerminates == Acquiring(1) ~> ~Acquiring(1)

\* The deadline has passed and the process is about to retry openSync
\* without having checked it, the sentinel being another process's.
C35_Witness ==
    /\ pc[1] = "open"
    /\ now >= deadline[1]
    /\ lock # NoLock
    /\ lock.by = 2
    /\ lock.mtime >= deadline[1]

\* The first command after the kill has started in process 1 and the
\* sentinel of the killed process is older than LOCK_STALE_MS.
StartedOnOrphan ==
    /\ crashes = MaxCrashes
    /\ opsStarted = 2
    /\ pc[1] = "open"
    /\ lvl[1] = "outer"
    /\ cmd[1].op = "create"
    /\ lock # NoLock
    /\ lock.by = 2
    /\ IsStale(lock.mtime, now)

\* C36 (an orphaned sentinel does not block the store): when a process was
\* killed holding the lock and its sentinel is older than LOCK_STALE_MS, the
\* next create that is started acquires the lock and completes: it ends
\* with its success message.
C36_OrphanRecovered ==
    StartedOnOrphan
        ~> (/\ opsStarted = 2
            /\ pc[1] = "idle"
            /\ \E m \in out : m.op = "create" /\ m.res = "ok")

\* The command has removed the orphaned sentinel and holds the lock, and its
\* store function is about to give up waiting for the command's own
\* sentinel.
C36_Witness ==
    /\ crashes = MaxCrashes
    /\ opsStarted = 2
    /\ pc[1] = "stat"
    /\ lvl[1] = "inner"
    /\ lock # NoLock
    /\ lock.by = 1
    /\ lock.mtime > LOCK_STALE_MS
    /\ ~IsStale(lock.mtime, now)
    /\ now >= deadline[1]

\* A fix of sd doctor --fix has computed, from the file it read, the
\* content it is going to write.
ComputesFix ==
    /\ pc[2] = "fix_read"
    /\ pc'[2] = "fix_write"

\* The checks of the audit on the issues that pass on the content lines.
PassingChecks(lines) ==
    LET issues == readIssues(lines).recs
    IN  (IF checkDuplicateIds(lines) = {} THEN {"duplicate-ids"} ELSE {})
        \cup (IF ~checkReferentialIntegrity(issues)
               THEN {"referential-integrity"} ELSE {})
        \cup (IF ~checkBidirectionalConsistency(issues)
               THEN {"bidirectional-consistency"} ELSE {})
        \cup (IF checkCircularDependencies(issues) = <<>>
               THEN {"circular-dependencies"} ELSE {})

\* C37 (a repair breaks no passing check): a check that passes on the file
\* a fix of sd doctor --fix has read passes on the content the fix writes;
\* adding the missing back-references creates no cycle that the cycle check
\* had not reported.
C37_FixBreaksNothing ==
    [][ComputesFix => PassingChecks(issuesFile) \subseteq PassingChecks(buf'[2])
      ]_vars

\* The only failing check was bidirectional-consistency, the cycle check
\* passed, and the content about to be written has a cycle.
C37_Witness ==
    /\ pc[2] = "fix_write"
    /\ cmd[2].checks = <<"bidirectional-consistency">>
    /\ PassingChecks(issuesFile) =
           {"duplicate-ids", "referential-integrity", "circular-dependencies"}
    /\ "circular-dependencies" \notin PassingChecks(buf[2])

\* C38 (closedAt goes with closed): in every state between commands reached
\* from the empty store through create, update and close commands, an issue
\* has a closedAt exactly when its status is closed.
C38_ClosedAtIffClosed ==
    LET r == readIssues(issuesFile)
    IN  (Quiescent /\ r.ok) =>
            \A k \in 1..Len(r.recs) :
                r.recs[k].closedAt # NoTime <=> r.recs[k].status = "closed"

\* update --status closed has rewritten the store: the issue it names is
\* closed.
C38_Witness ==
    /\ Rewrote("update")
    /\ cmd[1].st = "closed"
    /\ readIssues(issuesFile).ok
    /\ \E i \in Range(readIssues(issuesFile).recs) :
           /\ i.id = cmd[1].ids[1]
           /\ i.status = "closed"
           /\ IssueOf(existing[1], i.id).status # "closed"

\* C39 (ready and blocked partition the open issues): on every store that
\* can be read, no issue is listed both by sd ready and by sd blocked, each
\* open issue is listed by exactly one of the two, no closed issue is
\* listed by either, and no issue in progress is listed by sd ready.
C39_ReadyBlockedDisjoint ==
    LET r == readIssues(issuesFile)
    IN  r.ok =>
            /\ ReadyIds(r.recs) \cap BlockedIds(r.recs) = {}
            /\ \A i \in Range(r.recs) :
                   /\ i.status = "open" =>
                          (i.id \in ReadyIds(r.recs)
                               <=> i.id \notin BlockedIds(r.recs))
                   /\ i.status = "closed" =>
                          i.id \notin ReadyIds(r.recs) \cup BlockedIds(r.recs)
                   /\ i.status = "in_progress" => i.id \notin ReadyIds(r.recs)

\* sd blocked has listed an issue in progress and has left out an open
\* issue, which sd ready lists.
C39_Witness ==
    /\ result.op = "blocked"
    /\ result.ok
    /\ \E i \in Range(result.recs) : i.status = "in_progress"
    /\ \E i \in Range(readIssues(issuesFile).recs) :
           /\ i.status = "open"
           /\ i.id \in ReadyIds(readIssues(issuesFile).recs)
           /\ i \notin Range(result.recs)

\* generateId is running or has returned.
InGenerateId == result # NoResult /\ result.op = "generateId"

====
